---- MODULE Spec2Model ----
(***************************************************************************)
(* Model of the ash-rt ray-tracing frame pipeline.                         *)
(*                                                                         *)
(* Three snapshots of the program live in the repository and are modelled  *)
(* side by side; the variable `snapshot` selects one of them in Init:      *)
(*   "app" : src/src/base.rs (AppBase) driven by src/src/main.rs (App)     *)
(*   "vkc" : src/src/vk_controller.rs (VkController): init, resize, drop   *)
(*   "rtb" : src/rt/src/base.rs (AppBase of the rt crate): init, resize,   *)
(*           drop                                                          *)
(*   "rt"  : src/rt/src/main.rs with src/rt/src/acceleration_structure.rs  *)
(*                                                                         *)
(* The CPU thread is a program counter `pc`; the GPU queue, the            *)
(* presentation engine and the window system run concurrently with it.     *)
(***************************************************************************)
EXTENDS Integers, Sequences, FiniteSets, TLC

VARIABLES
    snapshot,            \* which snapshot of the program runs
    pc,                  \* position of the CPU thread
    ret,                 \* call site recreate_swapchain returns to ("none" outside of it)
    todo,                \* destroy calls still to be made by the running teardown routine
    windowSize,          \* window.inner_size(), owned by the window system
    resizeEvent,         \* a WindowEvent::Resized is queued for the event loop
    resizes,             \* number of resizes the window system has performed
    resized,             \* AppBase.resized
    surface_resolution,  \* AppBase.surface_resolution
    h,                   \* handle fields of the program, 0 = None / null handle
    gpu,                 \* driver objects: gpu[k][n] = destroy calls made on handle n of kind k
    extent,              \* extent the swapchain and the rt-output image were created with
    queue,               \* submissions on the device queue that have not completed
    fence,               \* fence -> signalled
    acquirePending,      \* the presentation engine still has to signal the acquire fence
    as_state,            \* acceleration structure -> "none" | "building" | "built"
    sizes_count,         \* primitive count given to get_acceleration_structure_build_sizes
    range_count,         \* primitive count of the build-range record of the build command
    instance_count,      \* AppBase.instance_count
    instances,           \* InstanceRecords: the BLAS each acceleration_structure_reference names
    dispatch,            \* width/height of the last recorded cmd_trace_rays
    panic_cause,         \* "none", or the result code that made an unwrap() panic
    descriptor,          \* rt descriptor set: exists, and what bindings 0 and 1 refer to
    sbt,                 \* shader binding table: device properties read and regions derived
    align,               \* a call of aligned_size: arguments and outcome
    acquire_fence,       \* fence handed to the latest acquire_next_image
    old_swapchain,        \* old_swapchain of the latest SwapchainCreateInfoKHR, 0 = null
    layout,              \* image layouts once all submitted work has executed: rt image, swapchain images
    present_index,       \* index acquire_next_image returned for the running frame, 0 = none
    commands,             \* commands recorded in the per-frame command buffers
    presents,             \* presentation requests the presentation engine has not executed
    build_command_buffer, \* the one-shot command buffer of the setup operation in progress
    memory_lookup        \* the call of get_memory_type_index under study

vars == <<snapshot, pc, ret, todo, windowSize, resizeEvent, resizes, resized,
          surface_resolution, h, gpu, extent, queue, fence, acquirePending,
          as_state, sizes_count, range_count, instance_count, instances,
          dispatch, panic_cause, descriptor, sbt, align, acquire_fence, old_swapchain,
          layout, present_index, commands,
          presents,
          build_command_buffer,
          memory_lookup>>

----------------------------------------------------------------------------
(* Bounds and program constants *)

MaxResizes == 2
MaxInstances == 2
SwapchainImages == 2

U32Bits == 32

WIDTH == 1920
HEIGHT == 1080

Snapshots == {"app", "vkc", "rtb", "rt"}

DefaultExtent == <<WIDTH, HEIGHT>>
WindowExtents == {DefaultExtent, <<WIDTH \div 2, HEIGHT \div 2>>}
NoExtent == <<0, 0>>

Kinds == {"swapchain", "present_image_views", "depth_image", "depth_image_memory",
          "depth_image_view", "render_pass", "framebuffers",
          "rt_image", "rt_image_memory", "rt_image_view",
          "aabb_buffer", "index_buffer", "vertex_buffer",
          "bottom_as", "bottom_as_buffer", "top_as", "top_as_buffer",
          "scratch_buffer", "instance_buffer",
          "colors_buffer", "palette_buffer", "voxels_buffer", "uniforms_buffer",
          "rt_descriptor_pool", "uniforms_descriptor_pool", "pipeline",
          "pipeline_layout", "rt_descriptor_set_layout",
          "uniforms_descriptor_set_layout", "shader_binding_table_buffer"}

----------------------------------------------------------------------------
(* Driver objects *)

\* vkCreate* / BufferResource::new: a fresh handle of kind k
Create(g, k) == [g EXCEPT ![k] = Append(@, 0)]

RECURSIVE CreateAll(_, _)
CreateAll(g, ks) ==
    IF ks = <<>> THEN g ELSE CreateAll(Create(g, Head(ks)), Tail(ks))

\* the handle returned by the latest Create(g, k)
Latest(g, k) == Len(g[k])

\* vkDestroy* / vkFreeMemory / BufferResource::destroy on handle n; null is ignored
Destroy(g, k, n) == IF n = 0 THEN g ELSE [g EXCEPT ![k][n] = @ + 1]

Alive(k, n) == n \in 1..Len(gpu[k]) /\ gpu[k][n] = 0

\* the fields named in ks now hold the handles created last
StoreLatest(hh, g, ks) == [k \in Kinds |-> IF k \in ks THEN Latest(g, k) ELSE hh[k]]

Range(seq) == {seq[i] : i \in 1..Len(seq)}

\* rt_descriptor_set: None
NoDescriptor == [set |-> FALSE, tlas |-> 0, image_view |-> 0]

\* shader_binding_table_buffer and the sbt_*_region fields: None
NoSbt == [built |-> FALSE]

\* a command of a command buffer; image barriers name the image and both layouts
Cmd(op) == [op |-> op, image |-> "none", old |-> "none", new |-> "none"]
ImageBarrier(image, old, new) ==
    [op |-> "pipeline_barrier", image |-> image, old |-> old, new |-> new]

\* draw_command_buffer and rt_command_buffer as begun and ended without commands
NoCommands == [draw_command_buffer |-> <<>>, rt_command_buffer |-> <<>>]

\* vk::MemoryBarrier recorded with cmd_pipeline_barrier
MemoryBarrier(src_stage, src_access, dst_stage, dst_access) ==
    [op |-> "pipeline_barrier", image |-> "none", old |-> "none", new |-> "none",
     src_stage |-> src_stage, src_access |-> src_access,
     dst_stage |-> dst_stage, dst_access |-> dst_access]

\* cmd_build_acceleration_structures of one structure of type ty
BuildAccelerationStructures(ty) ==
    [op |-> "build_acceleration_structures", image |-> "none", old |-> "none",
     new |-> "none", ty |-> ty]

\* no one-shot command buffer is allocated
NoBuildCommandBuffer == [allocated |-> FALSE, commands |-> <<>>]

\* fault variant: the command buffer is freed as soon as it is submitted
OneShot_FreedAtSubmit(cmds) == [allocated |-> FALSE, commands |-> cmds]
\* allocate_command_buffers, begin, the given commands, end
OneShot(cmds) == [allocated |-> TRUE, commands |-> cmds]

\* no call of get_memory_type_index is under study
NoLookup == [state |-> "none"]

\* no call of aligned_size is under study
NoCall == [state |-> "none"]

QueueIdle == queue = <<>>

\* a queue submission without semaphores
Job(kind, f) ==
    [kind |-> kind, fence |-> f, wait |-> "none", stage |-> "none", signal |-> "none"]

\* a submission on the queue will signal semaphore sem
SignalPending(sem) == \E i \in 1..Len(queue) : queue[i].signal = sem

----------------------------------------------------------------------------
(* 32-bit unsigned arithmetic.  A u32 is the pair <<high, low>> of its two   *)
(* halves, so that every intermediate value stays exact.                     *)

Half == 2 ^ (U32Bits \div 2)

ToU32(n) == <<(n \div Half) % Half, n % Half>>

\* the number a u32 below 2^31 stands for
FromU32(x) == x[1] * Half + x[2]

U32Zero == <<0, 0>>
U32One == <<0, 1>>

\* u32 `+`: the wrapped sum, and whether the exact sum needs a 33rd bit
Add32(x, y) == <<(x[1] + y[1] + (x[2] + y[2]) \div Half) % Half, (x[2] + y[2]) % Half>>
AddOverflows(x, y) == x[1] + y[1] + (x[2] + y[2]) \div Half >= Half

\* u32 `-`: the wrapped difference, and whether the exact difference is negative
Borrow(x, y) == IF x[2] < y[2] THEN 1 ELSE 0
Sub32(x, y) == <<(x[1] - y[1] - Borrow(x, y) + Half) % Half, (x[2] - y[2] + Half) % Half>>
SubOverflows(x, y) == x[1] - y[1] - Borrow(x, y) < 0

\* u32 `!`
Not32(x) == <<Half - 1 - x[1], Half - 1 - x[2]>>

RECURSIVE AndBits(_, _)
AndBits(a, b) ==
    IF a = 0 \/ b = 0 THEN 0
    ELSE (a % 2) * (b % 2) + 2 * AndBits(a \div 2, b \div 2)

\* u32 `&`
And32(x, y) == <<AndBits(x[1], y[1]), AndBits(x[2], y[2])>>

Less32(x, y) == x[1] < y[1] \/ (x[1] = y[1] /\ x[2] < y[2])

\* 2^k as a u32
Pow2U32(k) == IF k < U32Bits \div 2 THEN <<0, 2 ^ k>> ELSE <<2 ^ (k - U32Bits \div 2), 0>>

\* x % a for a power of two a: the bits of x below a's bit
Mod32(x, a) == And32(x, Sub32(a, U32One))

\* fault variant: rounds up from value + alignment
aligned_size_Off(value, alignment) ==
    And32(Add32(value, alignment), Not32(Sub32(alignment, U32One)))
\* (value + alignment - 1) & !(alignment - 1), as computed with wrapping arithmetic
aligned_size(value, alignment) ==
    And32(Sub32(Add32(value, alignment), U32One), Not32(Sub32(alignment, U32One)))

\* an arithmetic step of aligned_size leaves the u32 range: a build with overflow
\* checks panics there, a build without them wraps
aligned_size_overflows(value, alignment) ==
    \/ AddOverflows(value, alignment)
    \/ SubOverflows(Add32(value, alignment), U32One)
    \/ SubOverflows(alignment, U32One)

----------------------------------------------------------------------------
(* Construction: AppBase::new / VkController::new / ExampleBase::new.        *)
(* The surface extent is what the window system grants; fences start         *)
(* signalled.  ExampleBase of the rt crate owns its swapchain, which is      *)
(* created in new and is not tracked as a handle.                            *)

Init ==
    /\ snapshot \in Snapshots
    /\ windowSize \in WindowExtents
    /\ surface_resolution = windowSize
    /\ pc = IF snapshot = "rt" THEN "create_rt_image" ELSE "create_swapchain"
    /\ ret = "none"
    /\ todo = <<>>
    /\ resizeEvent = FALSE
    /\ resizes = 0
    /\ resized = FALSE
    /\ h = [k \in Kinds |-> 0]
    /\ gpu = [k \in Kinds |-> <<>>]
    /\ extent = [swapchain |-> IF snapshot = "rt" THEN windowSize ELSE NoExtent,
                 rt_image |-> NoExtent]
    /\ queue = <<>>
    /\ fence = [draw |-> TRUE, setup |-> TRUE, acquire |-> TRUE]
    /\ acquirePending = FALSE
    /\ as_state = [bottom_as |-> "none", top_as |-> "none"]
    /\ sizes_count = [bottom_as |-> 0, top_as |-> 0]
    /\ range_count = [bottom_as |-> 0, top_as |-> 0]
    /\ instance_count = 0
    /\ instances = <<>>
    /\ dispatch = NoExtent
    /\ panic_cause = "none"
    /\ descriptor = NoDescriptor
    /\ sbt = NoSbt
    /\ align = NoCall
    /\ acquire_fence = "none"
    /\ old_swapchain = 0
    /\ layout = [rt_image |-> "UNDEFINED",
                 present_images |-> [i \in 1..SwapchainImages |-> "UNDEFINED"]]
    /\ present_index = 0
    /\ commands = NoCommands
    /\ presents = <<>>
    /\ build_command_buffer = NoBuildCommandBuffer
    /\ memory_lookup = NoLookup

----------------------------------------------------------------------------
(* Environment: GPU queue, presentation engine, window system *)

\* the device executes the oldest submission and signals its fence; a submission
\* that waits on present_complete_semaphore first waits for the acquire to signal it
GpuComplete ==
    /\ queue # <<>>
    /\ Head(queue).wait = "present_complete" => ~acquirePending
    /\ queue' = Tail(queue)
    /\ fence' = IF Head(queue).fence = "none" THEN fence
                ELSE [fence EXCEPT ![Head(queue).fence] = TRUE]
    /\ as_state' = CASE Head(queue).kind = "blas_build" -> [as_state EXCEPT !.bottom_as = "built"]
                     [] Head(queue).kind = "tlas_build" -> [as_state EXCEPT !.top_as = "built"]
                     [] OTHER -> as_state
    /\ UNCHANGED <<descriptor, sbt, align, acquire_fence, snapshot, memory_lookup, build_command_buffer, presents, layout, present_index, commands, old_swapchain, pc, ret, todo, windowSize, resizeEvent, resizes, resized,
                   surface_resolution, h, gpu, extent, acquirePending,
                   sizes_count, range_count, instance_count, instances,
                   dispatch, panic_cause>>

\* the presentation engine signals the fence handed to acquire_next_image
AcquireSignal ==
    /\ acquirePending
    /\ acquirePending' = FALSE
    /\ fence' = IF acquire_fence = "null" THEN fence
                ELSE [fence EXCEPT ![acquire_fence] = TRUE]
    /\ UNCHANGED <<descriptor, sbt, align, acquire_fence, snapshot, memory_lookup, build_command_buffer, presents, layout, present_index, commands, old_swapchain, pc, ret, todo, windowSize, resizeEvent, resizes, resized,
                   surface_resolution, h, gpu, extent, queue,
                   as_state, sizes_count, range_count, instance_count, instances,
                   dispatch, panic_cause>>

\* the presentation engine executes the oldest presentation request once the
\* semaphore it waits on is no longer to be signalled
PresentExecute ==
    /\ presents # <<>>
    /\ Head(presents).wait # "none" => ~SignalPending(Head(presents).wait)
    /\ presents' = Tail(presents)
    /\ UNCHANGED <<descriptor, sbt, align, acquire_fence, snapshot, memory_lookup, build_command_buffer, layout, present_index, commands, old_swapchain,
                   pc, ret, todo, windowSize, resizeEvent, resizes, resized,
                   surface_resolution, h, gpu, extent, queue, fence, acquirePending,
                   as_state, sizes_count, range_count, instance_count, instances,
                   dispatch, panic_cause>>

\* the user resizes the window; winit queues WindowEvent::Resized
WindowResize ==
    /\ pc \notin {"done", "aborted"}
    /\ resizes < MaxResizes
    /\ \E e \in WindowExtents \ {windowSize} : windowSize' = e
    /\ resizeEvent' = TRUE
    /\ resizes' = resizes + 1
    /\ UNCHANGED <<descriptor, sbt, align, acquire_fence, snapshot, memory_lookup, build_command_buffer, presents, layout, present_index, commands, old_swapchain, pc, ret, todo, resized,
                   surface_resolution, h, gpu, extent, queue, fence, acquirePending,
                   as_state, sizes_count, range_count, instance_count, instances,
                   dispatch, panic_cause>>

\* the surface no longer matches the swapchain: acquire/present may report OUT_OF_DATE
SwapchainStale == windowSize # extent.swapchain

----------------------------------------------------------------------------
(* Control flow *)

Framed == {"app", "rt"}          \* snapshots whose frame loop is in the source

After(seq, x) == seq[(CHOOSE i \in 1..Len(seq) : seq[i] = x) + 1]

\* fault variant: init returns without creating the rt-output image
init_NoRtImage(s) ==
    CASE s \in {"app", "rtb"} ->
           <<"create_swapchain", "create_image_views", "create_framebuffers",
             "create_geometry", "create_bottom_as",
             "create_as_instances", "create_top_as", "create_buffers",
             "create_descriptor_sets", "create_rt_sbt", "idle">>
      [] s = "vkc" ->
           <<"create_swapchain", "create_image_views",
             "create_geometry", "create_bottom_as",
             "create_as_instances", "create_top_as", "create_buffers",
             "create_descriptor_sets", "create_rt_sbt", "idle">>
      [] s = "rt" ->
           <<"create_rt_image", "create_geometry", "create_bottom_as",
             "create_as_instances", "create_top_as",
             "create_descriptor_sets", "create_rt_sbt", "create_framebuffers", "idle">>
\* AppBase::init / VkController::init / main of the rt crate
init(s) ==
    CASE s \in {"app", "rtb"} ->
           <<"create_swapchain", "create_image_views", "create_framebuffers",
             "create_rt_image", "create_geometry", "create_bottom_as",
             "create_as_instances", "create_top_as", "create_buffers",
             "create_descriptor_sets", "create_rt_sbt", "idle">>
      [] s = "vkc" ->
           <<"create_swapchain", "create_image_views",
             "create_rt_image", "create_geometry", "create_bottom_as",
             "create_as_instances", "create_top_as", "create_buffers",
             "create_descriptor_sets", "create_rt_sbt", "idle">>
      [] s = "rt" ->
           <<"create_rt_image", "create_geometry", "create_bottom_as",
             "create_as_instances", "create_top_as",
             "create_descriptor_sets", "create_rt_sbt", "create_framebuffers", "idle">>

\* the create_* calls that end recreate_swapchain
RecreateTail(s) ==
    IF s = "vkc" THEN <<"create_image_views", "create_rt_image", "return">>
    ELSE <<"create_image_views", "create_framebuffers", "create_rt_image", "return">>

\* where control continues when recreate_swapchain returns to call site r
ReturnPc(r) == IF r = "resized" THEN "acquire" ELSE "idle"

\* the step that follows step p
ThenPc(p) ==
    IF ret = "none" THEN After(init(snapshot), p)
    ELSE LET n == After(RecreateTail(snapshot), p)
         IN IF n = "return" THEN ReturnPc(ret) ELSE n

----------------------------------------------------------------------------
(* Swapchain-dependent resources *)

\* utils::record_submit_commandbuffer: wait + reset the reuse fence, record, submit with it
record_submit_commandbuffer(f, kind) ==
    /\ fence[f]
    /\ fence' = [fence EXCEPT ![f] = FALSE]
    /\ queue' = Append(queue, Job(kind, f))

create_swapchain ==
    /\ pc = "create_swapchain"
    /\ gpu' = Create(gpu, "swapchain")
    /\ h' = StoreLatest(h, gpu', {"swapchain"})
    /\ extent' = [extent EXCEPT !.swapchain = surface_resolution]
    /\ pc' = ThenPc("create_swapchain")
    /\ UNCHANGED <<descriptor, sbt, align, acquire_fence, snapshot, memory_lookup, build_command_buffer, presents, layout, present_index, commands, old_swapchain, ret, todo, windowSize, resizeEvent, resizes, resized,
                   surface_resolution, queue, fence, acquirePending,
                   as_state, sizes_count, range_count, instance_count, instances,
                   dispatch, panic_cause>>

ImageViewKinds == {"present_image_views", "depth_image", "depth_image_memory", "depth_image_view"}

create_image_views ==
    /\ pc = "create_image_views"
    /\ gpu' = CreateAll(gpu, <<"present_image_views", "depth_image",
                               "depth_image_memory", "depth_image_view">>)
    /\ record_submit_commandbuffer("setup", "depth_layout")
    /\ h' = StoreLatest(h, gpu', ImageViewKinds)
    /\ layout' = [layout EXCEPT !.present_images = [i \in 1..SwapchainImages |-> "UNDEFINED"]]
    /\ pc' = ThenPc("create_image_views")
    /\ UNCHANGED <<descriptor, sbt, align, acquire_fence, snapshot, memory_lookup, build_command_buffer, presents, present_index, commands, old_swapchain, ret, todo, windowSize, resizeEvent, resizes, resized,
                   surface_resolution, extent, acquirePending,
                   as_state, sizes_count, range_count, instance_count, instances,
                   dispatch, panic_cause>>

create_framebuffers ==
    /\ pc = "create_framebuffers"
    /\ gpu' = CreateAll(gpu, <<"render_pass", "framebuffers">>)
    /\ h' = StoreLatest(h, gpu', {"render_pass", "framebuffers"})
    /\ pc' = ThenPc("create_framebuffers")
    /\ UNCHANGED <<descriptor, sbt, align, acquire_fence, snapshot, memory_lookup, build_command_buffer, presents, layout, present_index, commands, old_swapchain, ret, todo, windowSize, resizeEvent, resizes, resized,
                   surface_resolution, extent, queue, fence, acquirePending,
                   as_state, sizes_count, range_count, instance_count, instances,
                   dispatch, panic_cause>>

\* extent the rt-output image is created with
RtImageExtent(s, res) == IF s = "rt" THEN <<WIDTH, HEIGHT>> ELSE res

\* the one-shot command buffer of create_rt_image
RtImageSetupCommands == <<ImageBarrier("rt_image", "UNDEFINED", "GENERAL")>>

\* the layouts the images named by lay have after cmds have executed
RECURSIVE Executed(_, _)
Executed(cmds, lay) ==
    IF cmds = <<>> THEN lay
    ELSE Executed(Tail(cmds),
                  IF Head(cmds).image = "none" THEN lay
                  ELSE [lay EXCEPT ![Head(cmds).image] = Head(cmds).new])

\* create image (initial_layout UNDEFINED), memory and view, then submit the
\* UNDEFINED -> GENERAL one-shot
create_rt_image ==
    /\ pc = "create_rt_image"
    /\ gpu' = CreateAll(gpu, <<"rt_image", "rt_image_memory", "rt_image_view">>)
    /\ queue' = Append(queue, Job("rt_layout", "none"))
    /\ layout' = [layout EXCEPT !.rt_image =
                     Executed(RtImageSetupCommands, [rt_image |-> "UNDEFINED"]).rt_image]
    /\ build_command_buffer' = OneShot(RtImageSetupCommands)
    /\ pc' = "create_rt_image_wait"
    /\ UNCHANGED <<descriptor, sbt, align, acquire_fence, snapshot, memory_lookup, presents, present_index, commands, old_swapchain, ret, todo, windowSize, resizeEvent, resizes, resized,
                   surface_resolution, h, extent, fence, acquirePending,
                   as_state, sizes_count, range_count, instance_count, instances,
                   dispatch, panic_cause>>

\* write binding 1 (STORAGE_IMAGE) of the rt descriptor set with the given view
update_rt_image_descriptor_set(d, view) == [d EXCEPT !.image_view = view]

\* fault variant: create_rt_image returns without rewriting the descriptor set
create_rt_image_wait_NoUpdate ==
    /\ pc = "create_rt_image_wait"
    /\ QueueIdle
    /\ h' = StoreLatest(h, gpu, {"rt_image", "rt_image_memory", "rt_image_view"})
    /\ extent' = [extent EXCEPT !.rt_image = RtImageExtent(snapshot, surface_resolution)]
    /\ build_command_buffer' = NoBuildCommandBuffer
    /\ pc' = ThenPc("create_rt_image")
    /\ ret' = "none"
    /\ resized' = IF ret = "resized" THEN FALSE ELSE resized
    /\ UNCHANGED <<descriptor, sbt, align, acquire_fence, snapshot, memory_lookup, presents, layout, present_index, commands, old_swapchain, todo, windowSize, resizeEvent, resizes,
                   surface_resolution, gpu, queue, fence, acquirePending,
                   as_state, sizes_count, range_count, instance_count, instances,
                   dispatch, panic_cause>>
\* queue_wait_idle returned: free the command buffer, publish the fields, rewrite
\* the storage-image binding if the rt descriptor set exists, return
create_rt_image_wait ==
    /\ pc = "create_rt_image_wait"
    /\ QueueIdle
    /\ h' = StoreLatest(h, gpu, {"rt_image", "rt_image_memory", "rt_image_view"})
    /\ extent' = [extent EXCEPT !.rt_image = RtImageExtent(snapshot, surface_resolution)]
    /\ descriptor' = IF descriptor.set
                     THEN update_rt_image_descriptor_set(descriptor, h'.rt_image_view)
                     ELSE descriptor
    /\ build_command_buffer' = NoBuildCommandBuffer
    /\ pc' = ThenPc("create_rt_image")
    /\ ret' = "none"
    /\ resized' = IF ret = "resized" THEN FALSE ELSE resized
    /\ UNCHANGED <<sbt, align, acquire_fence, snapshot, memory_lookup, presents, layout, present_index, commands, old_swapchain, todo, windowSize, resizeEvent, resizes,
                   surface_resolution, gpu, queue, fence, acquirePending,
                   as_state, sizes_count, range_count, instance_count, instances,
                   dispatch, panic_cause>>

----------------------------------------------------------------------------
(* Acceleration structures *)

AppInstanceCount == 3

GeometryKinds(s) == IF s = "vkc" THEN <<"vertex_buffer", "index_buffer">> ELSE <<"aabb_buffer">>

create_geometry ==
    /\ pc = "create_geometry"
    /\ gpu' = CreateAll(gpu, GeometryKinds(snapshot))
    /\ h' = StoreLatest(h, gpu', Range(GeometryKinds(snapshot)))
    /\ pc' = ThenPc("create_geometry")
    /\ UNCHANGED <<descriptor, sbt, align, acquire_fence, snapshot, memory_lookup, build_command_buffer, presents, layout, present_index, commands, old_swapchain, ret, todo, windowSize, resizeEvent, resizes, resized,
                   surface_resolution, extent, queue, fence, acquirePending,
                   as_state, sizes_count, range_count, instance_count, instances,
                   dispatch, panic_cause>>

\* primitive_count of the BLAS build-range record
BlasRangeCount(s) == IF s = "vkc" THEN 12 ELSE 1

\* fault variant: a size query that declares one primitive more than the range
BlasSizesCount_Off(s) == IF s = "vkc" THEN 12 ELSE 2
\* max_primitive_counts handed to get_acceleration_structure_build_sizes for the BLAS
BlasSizesCount(s) == IF s = "vkc" THEN 12 ELSE 1

\* the one-shot command buffer of the BLAS build
BlasBuildCommands == <<BuildAccelerationStructures("BOTTOM_LEVEL")>>

\* size query, destination buffer, BLAS object, scratch buffer, build command, submit
create_bottom_as ==
    /\ pc = "create_bottom_as"
    /\ range_count' = [range_count EXCEPT !.bottom_as = BlasRangeCount(snapshot)]
    /\ sizes_count' = [sizes_count EXCEPT !.bottom_as = BlasSizesCount(snapshot)]
    /\ gpu' = CreateAll(gpu, <<"bottom_as_buffer", "bottom_as", "scratch_buffer">>)
    /\ h' = StoreLatest(h, gpu', {"scratch_buffer"})
    /\ as_state' = [as_state EXCEPT !.bottom_as = "building"]
    /\ queue' = Append(queue, Job("blas_build", "none"))
    /\ build_command_buffer' = OneShot(BlasBuildCommands)
    /\ pc' = "create_bottom_as_wait"
    /\ UNCHANGED <<descriptor, sbt, align, acquire_fence, snapshot, memory_lookup, presents, layout, present_index, commands, old_swapchain, ret, todo, windowSize, resizeEvent, resizes, resized,
                   surface_resolution, extent, fence, acquirePending,
                   instance_count, instances, dispatch, panic_cause>>

\* fault variant: create_bottom_as returns without queue_wait_idle
create_bottom_as_wait_NoWait ==
    /\ pc = "create_bottom_as_wait"
    /\ gpu' = Destroy(gpu, "scratch_buffer", h.scratch_buffer)
    /\ h' = StoreLatest(h, gpu, {"bottom_as", "bottom_as_buffer"})
    /\ build_command_buffer' = NoBuildCommandBuffer
    /\ pc' = ThenPc("create_bottom_as")
    /\ UNCHANGED <<descriptor, sbt, align, acquire_fence, snapshot, memory_lookup, presents, layout, present_index, commands, old_swapchain, ret, todo, windowSize, resizeEvent, resizes, resized,
                   surface_resolution, extent, queue, fence, acquirePending,
                   as_state, sizes_count, range_count, instance_count, instances,
                   dispatch, panic_cause>>
\* queue_wait_idle returned: free the command buffer, destroy the scratch buffer, publish
create_bottom_as_wait ==
    /\ pc = "create_bottom_as_wait"
    /\ QueueIdle
    /\ gpu' = Destroy(gpu, "scratch_buffer", h.scratch_buffer)
    /\ h' = StoreLatest(h, gpu, {"bottom_as", "bottom_as_buffer"})
    /\ build_command_buffer' = NoBuildCommandBuffer
    /\ pc' = ThenPc("create_bottom_as")
    /\ UNCHANGED <<descriptor, sbt, align, acquire_fence, snapshot, memory_lookup, presents, layout, present_index, commands, old_swapchain, ret, todo, windowSize, resizeEvent, resizes, resized,
                   surface_resolution, extent, queue, fence, acquirePending,
                   as_state, sizes_count, range_count, instance_count, instances,
                   dispatch, panic_cause>>

\* number of instance records: three fixed instances, or one per voxel of the loaded model
InstanceCounts(s) == IF s = "vkc" THEN 1..MaxInstances ELSE {AppInstanceCount}

\* get_acceleration_structure_device_address(bottom_as) goes into every record
create_as_instances ==
    /\ pc = "create_as_instances"
    /\ \E n \in InstanceCounts(snapshot) :
         /\ instance_count' = n
         /\ instances' = [i \in 1..n |-> h.bottom_as]
    /\ gpu' = Create(gpu, "instance_buffer")
    /\ h' = StoreLatest(h, gpu', {"instance_buffer"})
    /\ pc' = ThenPc("create_as_instances")
    /\ UNCHANGED <<descriptor, sbt, align, acquire_fence, snapshot, memory_lookup, build_command_buffer, presents, layout, present_index, commands, old_swapchain, ret, todo, windowSize, resizeEvent, resizes, resized,
                   surface_resolution, extent, queue, fence, acquirePending,
                   as_state, sizes_count, range_count, dispatch, panic_cause>>

\* primitive_count of the TLAS build-range record: instance_count as u32, which
\* keeps every count below 2^32 unchanged
TlasRangeCount(n) == n

\* the size query reads build_range_info.primitive_count
TlasSizesCount(range) == range

\* the one-shot command buffer of the TLAS build: the memory barrier recorded
\* right after begin_command_buffer, then the build command
TlasBuildCommands ==
    <<MemoryBarrier("TRANSFER", "TRANSFER_WRITE",
                    "ACCELERATION_STRUCTURE_BUILD_KHR", "ACCELERATION_STRUCTURE_WRITE_KHR"),
      BuildAccelerationStructures("TOP_LEVEL")>>

\* barrier, size query, destination buffer, TLAS object, scratch buffer, build, submit
create_top_as ==
    /\ pc = "create_top_as"
    /\ range_count' = [range_count EXCEPT !.top_as = TlasRangeCount(instance_count)]
    /\ sizes_count' = [sizes_count EXCEPT !.top_as = TlasSizesCount(range_count'.top_as)]
    /\ gpu' = CreateAll(gpu, <<"top_as_buffer", "top_as", "scratch_buffer">>)
    /\ h' = StoreLatest(h, gpu', {"scratch_buffer"})
    /\ as_state' = [as_state EXCEPT !.top_as = "building"]
    /\ queue' = Append(queue, Job("tlas_build", "none"))
    /\ build_command_buffer' = OneShot(TlasBuildCommands)
    /\ pc' = "create_top_as_wait"
    /\ UNCHANGED <<descriptor, sbt, align, acquire_fence, snapshot, memory_lookup, presents, layout, present_index, commands, old_swapchain, ret, todo, windowSize, resizeEvent, resizes, resized,
                   surface_resolution, extent, fence, acquirePending,
                   instance_count, instances, dispatch, panic_cause>>

\* fault variant: the scratch buffer is destroyed without queue_wait_idle
create_top_as_wait_NoWait ==
    /\ pc = "create_top_as_wait"
    /\ gpu' = Destroy(gpu, "scratch_buffer", h.scratch_buffer)
    /\ h' = StoreLatest(h, gpu, {"top_as", "top_as_buffer"})
    /\ build_command_buffer' = NoBuildCommandBuffer
    /\ pc' = ThenPc("create_top_as")
    /\ UNCHANGED <<descriptor, sbt, align, acquire_fence, snapshot, memory_lookup, presents, layout, present_index, commands, old_swapchain, ret, todo, windowSize, resizeEvent, resizes, resized,
                   surface_resolution, extent, queue, fence, acquirePending,
                   as_state, sizes_count, range_count, instance_count, instances,
                   dispatch, panic_cause>>
\* queue_wait_idle returned: free the command buffer, destroy the scratch buffer, publish
create_top_as_wait ==
    /\ pc = "create_top_as_wait"
    /\ QueueIdle
    /\ gpu' = Destroy(gpu, "scratch_buffer", h.scratch_buffer)
    /\ h' = StoreLatest(h, gpu, {"top_as", "top_as_buffer"})
    /\ build_command_buffer' = NoBuildCommandBuffer
    /\ pc' = ThenPc("create_top_as")
    /\ UNCHANGED <<descriptor, sbt, align, acquire_fence, snapshot, memory_lookup, presents, layout, present_index, commands, old_swapchain, ret, todo, windowSize, resizeEvent, resizes, resized,
                   surface_resolution, extent, queue, fence, acquirePending,
                   as_state, sizes_count, range_count, instance_count, instances,
                   dispatch, panic_cause>>

----------------------------------------------------------------------------
(* Remaining one-time setup *)

\* the buffers create_data_structures makes after the TLAS
DataBufferKinds(s) ==
    CASE s = "app" -> <<"colors_buffer", "voxels_buffer", "uniforms_buffer">>
      [] s = "vkc" -> <<"palette_buffer", "voxels_buffer", "uniforms_buffer">>
      [] s = "rtb" -> <<"colors_buffer">>
      [] OTHER     -> <<>>

create_buffers ==
    /\ pc = "create_buffers"
    /\ gpu' = CreateAll(gpu, DataBufferKinds(snapshot))
    /\ h' = StoreLatest(h, gpu', Range(DataBufferKinds(snapshot)))
    /\ pc' = ThenPc("create_buffers")
    /\ UNCHANGED <<descriptor, sbt, align, acquire_fence, snapshot, memory_lookup, build_command_buffer, presents, layout, present_index, commands, old_swapchain, ret, todo, windowSize, resizeEvent, resizes, resized,
                   surface_resolution, extent, queue, fence, acquirePending,
                   as_state, sizes_count, range_count, instance_count, instances,
                   dispatch, panic_cause>>

\* descriptor pools, set layouts, pipeline layout and ray-tracing pipeline
DescriptorKinds(s) ==
    IF s \in {"app", "vkc"}
    THEN <<"rt_descriptor_pool", "rt_descriptor_set_layout", "uniforms_descriptor_set_layout",
           "uniforms_descriptor_pool", "pipeline_layout", "pipeline">>
    ELSE <<"rt_descriptor_pool", "rt_descriptor_set_layout", "pipeline_layout", "pipeline">>

\* binding 0 is written with top_as, binding 1 with rt_image_view
create_descriptor_sets ==
    /\ pc = "create_descriptor_sets"
    /\ gpu' = CreateAll(gpu, DescriptorKinds(snapshot))
    /\ h' = StoreLatest(h, gpu', Range(DescriptorKinds(snapshot)))
    /\ descriptor' = [set |-> TRUE, tlas |-> h.top_as, image_view |-> h.rt_image_view]
    /\ pc' = ThenPc("create_descriptor_sets")
    /\ UNCHANGED <<sbt, align, acquire_fence, snapshot, memory_lookup, build_command_buffer, presents, layout, present_index, commands, old_swapchain, ret, todo, windowSize, resizeEvent, resizes, resized,
                   surface_resolution, extent, queue, fence, acquirePending,
                   as_state, sizes_count, range_count, instance_count, instances,
                   dispatch, panic_cause>>

\* shader_group_handle_size and shader_group_base_alignment a device may report
ShaderGroupHandleSizes == {32}
ShaderGroupBaseAlignments == {32, 64}

\* the shader groups of the ray-tracing pipeline, in creation order
ShaderGroups(s) ==
    IF s = "vkc" THEN <<"raygen", "hit", "hit", "miss">>
    ELSE <<"raygen", "hit", "miss">>

\* the regions, relative to the device address of the table buffer
SbtRaygenRegion(s, aligned) == [offset |-> 0, stride |-> aligned, size |-> aligned]

\* fault variant: the miss region starts at the third slot of the four-group table
SbtMissRegion_Third(s, aligned) ==
    [offset |-> 2 * aligned, stride |-> aligned, size |-> aligned]
SbtMissRegion(s, aligned) ==
    [offset |-> IF s = "vkc" THEN 3 * aligned ELSE 2 * aligned,
     stride |-> aligned, size |-> aligned]

\* fault variant: the hit region covers one slot whatever the number of hit groups
SbtHitRegion_OneSlot(s, aligned) ==
    [offset |-> aligned, stride |-> aligned, size |-> aligned]
SbtHitRegion(s, aligned) ==
    [offset |-> aligned, stride |-> aligned,
     size |-> IF s = "vkc" THEN aligned * 2 ELSE aligned]

\* get_ray_tracing_shader_group_handles: group_count handles of handle_size
\* bytes each, tightly packed; the handles are opaque, non-zero, and differ
\* from group to group
ShaderGroupHandles(group_count, handle_size) ==
    [j \in 1..(group_count * handle_size) |-> ((j - 1) % 251) + 1]

\* table[start .. start + len(src)].copy_from_slice(src), start counted from 0
copy_from_slice(table, start, src) ==
    [k \in 1..Len(table) |->
        IF k - 1 \in start..(start + Len(src) - 1) THEN src[k - start] ELSE table[k]]

\* iterations i .. group_count - 1 of the copy loop of create_rt_sbt
RECURSIVE CopyHandles(_, _, _, _, _, _)
CopyHandles(table_data, incoming_table_data, i, group_count, handle_size, handle_size_aligned) ==
    IF i >= group_count THEN table_data
    ELSE CopyHandles(
           copy_from_slice(table_data, i * handle_size_aligned,
                           SubSeq(incoming_table_data,
                                  i * handle_size + 1, i * handle_size + handle_size)),
           incoming_table_data, i + 1, group_count, handle_size, handle_size_aligned)

\* fault variant: the handles are copied as tightly packed as they came
SbtTableData_Packed(incoming_table_data, group_count, handle_size, handle_size_aligned) ==
    CopyHandles([k \in 1..(group_count * handle_size_aligned) |-> 0],
                incoming_table_data, 0, group_count, handle_size, handle_size)
\* vec![0u8; table_size], then the copy loop
SbtTableData(incoming_table_data, group_count, handle_size, handle_size_aligned) ==
    CopyHandles([k \in 1..(group_count * handle_size_aligned) |-> 0],
                incoming_table_data, 0, group_count, handle_size, handle_size_aligned)

\* StridedDeviceAddressRegionKHR::default(): null address, stride 0, size 0
SbtCallRegion == [offset |-> 0, stride |-> 0, size |-> 0]

\* query the handles, copy handle i into slot i of a fresh table buffer, derive the regions
create_rt_sbt ==
    /\ pc = "create_rt_sbt"
    /\ gpu' = Create(gpu, "shader_binding_table_buffer")
    /\ h' = StoreLatest(h, gpu', {"shader_binding_table_buffer"})
    /\ \E handle_size \in ShaderGroupHandleSizes, base_alignment \in ShaderGroupBaseAlignments :
         LET handle_size_aligned ==
                 FromU32(aligned_size(ToU32(handle_size), ToU32(base_alignment)))
             group_count == Len(ShaderGroups(snapshot))
         IN sbt' = [built |-> TRUE,
                    handle_size |-> handle_size,
                    base_alignment |-> base_alignment,
                    table_size |-> group_count * handle_size_aligned,
                    slots |-> [i \in 1..group_count |-> (i - 1) * handle_size_aligned],
                    raygen |-> SbtRaygenRegion(snapshot, handle_size_aligned),
                    miss |-> SbtMissRegion(snapshot, handle_size_aligned),
                    hit |-> SbtHitRegion(snapshot, handle_size_aligned),
                    callable |-> SbtCallRegion,
                    incoming_table_data |-> ShaderGroupHandles(group_count, handle_size),
                    table_data |-> SbtTableData(ShaderGroupHandles(group_count, handle_size),
                                                group_count, handle_size,
                                                handle_size_aligned)]
    /\ pc' = ThenPc("create_rt_sbt")
    /\ UNCHANGED <<descriptor, align, acquire_fence, snapshot, memory_lookup, build_command_buffer, presents, layout, present_index, commands, old_swapchain, ret, todo, windowSize, resizeEvent, resizes, resized,
                   surface_resolution, extent, queue, fence, acquirePending,
                   as_state, sizes_count, range_count, instance_count, instances,
                   dispatch, panic_cause>>

----------------------------------------------------------------------------
(* Event loop *)

\* WindowEvent::Resized => base.resized = true
window_event_Resized ==
    /\ pc = "idle"
    /\ snapshot = "app"
    /\ resizeEvent
    /\ resizeEvent' = FALSE
    /\ resized' = TRUE
    /\ UNCHANGED <<descriptor, sbt, align, acquire_fence, snapshot, memory_lookup, build_command_buffer, presents, layout, present_index, commands, old_swapchain, pc, ret, todo, windowSize, resizes,
                   surface_resolution, h, gpu, extent, queue, fence, acquirePending,
                   as_state, sizes_count, range_count, instance_count, instances,
                   dispatch, panic_cause>>

\* on_resize of the window layer: the controller's recreate_swapchain is called directly
on_resize ==
    /\ pc = "idle"
    /\ snapshot \in {"vkc", "rtb"}
    /\ resizeEvent
    /\ resizeEvent' = FALSE
    /\ ret' = "on_resize"
    /\ pc' = "recreate_swapchain"
    /\ UNCHANGED <<descriptor, sbt, align, acquire_fence, snapshot, memory_lookup, build_command_buffer, presents, layout, present_index, commands, old_swapchain, todo, windowSize, resizes, resized,
                   surface_resolution, h, gpu, extent, queue, fence, acquirePending,
                   as_state, sizes_count, range_count, instance_count, instances,
                   dispatch, panic_cause>>

\* WindowEvent::RedrawRequested => main_loop / one iteration of render_loop
window_event_RedrawRequested ==
    /\ pc = "idle"
    /\ snapshot \in Framed
    /\ pc' = IF snapshot = "app" THEN "wait_acquire_fence" ELSE "acquire"
    /\ UNCHANGED <<descriptor, sbt, align, acquire_fence, snapshot, memory_lookup, build_command_buffer, presents, layout, present_index, commands, old_swapchain, ret, todo, windowSize, resizeEvent, resizes, resized,
                   surface_resolution, h, gpu, extent, queue, fence, acquirePending,
                   as_state, sizes_count, range_count, instance_count, instances,
                   dispatch, panic_cause>>

\* WindowEvent::CloseRequested => event_loop.exit(); the application is dropped
window_event_CloseRequested ==
    /\ pc = "idle"
    /\ pc' = IF snapshot \in {"app", "vkc"} THEN "drop_wait_fence" ELSE "drop_wait_idle"
    /\ UNCHANGED <<descriptor, sbt, align, acquire_fence, snapshot, memory_lookup, build_command_buffer, presents, layout, present_index, commands, old_swapchain, ret, todo, windowSize, resizeEvent, resizes, resized,
                   surface_resolution, h, gpu, extent, queue, fence, acquirePending,
                   as_state, sizes_count, range_count, instance_count, instances,
                   dispatch, panic_cause>>

----------------------------------------------------------------------------
(* Frame loop: main_loop *)

\* an unwrap() on an Err panics: AppBase is dropped while unwinding, main of rt leaks its locals
PanicPc(s) == IF s = "app" THEN "drop_wait_fence" ELSE "aborted"

\* fault variant: the frame step does not look at the resized flag
main_loop_wait_acquire_fence_NoRecreate ==
    /\ pc = "wait_acquire_fence"
    /\ fence.acquire
    /\ fence' = [fence EXCEPT !.acquire = FALSE]
    /\ pc' = "acquire" /\ ret' = ret
    /\ UNCHANGED <<descriptor, sbt, align, acquire_fence, snapshot, memory_lookup, build_command_buffer, presents, layout, present_index, commands, old_swapchain, todo, windowSize, resizeEvent, resizes, resized,
                   surface_resolution, h, gpu, extent, queue, acquirePending,
                   as_state, sizes_count, range_count, instance_count, instances,
                   dispatch, panic_cause>>
\* wait + reset swapchain_acquire_fence, then the `if self.resized` branch
main_loop_wait_acquire_fence ==
    /\ pc = "wait_acquire_fence"
    /\ fence.acquire
    /\ fence' = [fence EXCEPT !.acquire = FALSE]
    /\ IF resized
       THEN pc' = "recreate_swapchain" /\ ret' = "resized"
       ELSE pc' = "acquire" /\ ret' = ret
    /\ UNCHANGED <<descriptor, sbt, align, acquire_fence, snapshot, memory_lookup, build_command_buffer, presents, layout, present_index, commands, old_swapchain, todo, windowSize, resizeEvent, resizes, resized,
                   surface_resolution, h, gpu, extent, queue, acquirePending,
                   as_state, sizes_count, range_count, instance_count, instances,
                   dispatch, panic_cause>>

\* the fence argument of acquire_next_image
AcquireFence(s) == IF s = "rt" THEN "null" ELSE "acquire"

\* the images the presentation engine can hand out: an image queued for
\* presentation is not handed out again before the request has executed
AvailableImages ==
    {i \in 1..SwapchainImages : \A j \in 1..Len(presents) : presents[j].image # i}

\* acquire_next_image(swapchain, u64::MAX, present_complete_semaphore, fence).unwrap()
main_loop_acquire ==
    /\ pc = "acquire"
    /\ \/ /\ acquirePending' = TRUE
          /\ acquire_fence' = AcquireFence(snapshot)
          /\ \E i \in AvailableImages : present_index' = i
          /\ pc' = "wait_draw_fence"
          /\ UNCHANGED panic_cause
       \/ /\ SwapchainStale
          /\ panic_cause' = "acquire_out_of_date"
          /\ pc' = PanicPc(snapshot)
          /\ UNCHANGED <<acquirePending, acquire_fence, present_index>>
    /\ UNCHANGED <<descriptor, sbt, align, snapshot, memory_lookup, build_command_buffer, presents, layout, commands, old_swapchain, ret, todo, windowSize, resizeEvent, resizes, resized,
                   surface_resolution, h, gpu, extent, queue, fence,
                   as_state, sizes_count, range_count, instance_count, instances,
                   dispatch>>

\* fault variant: the frame goes on without waiting for the draw-reuse fence
main_loop_wait_draw_fence_NoWait ==
    /\ pc = "wait_draw_fence"
    /\ fence' = [fence EXCEPT !.draw = FALSE]
    /\ pc' = "record"
    /\ UNCHANGED <<descriptor, sbt, align, acquire_fence, snapshot, memory_lookup, build_command_buffer, presents, layout, present_index, commands, old_swapchain, ret, todo, windowSize, resizeEvent, resizes, resized,
                   surface_resolution, h, gpu, extent, queue, acquirePending,
                   as_state, sizes_count, range_count, instance_count, instances,
                   dispatch, panic_cause>>
\* wait_for_fences(draw_commands_reuse_fence), reset_fences
main_loop_wait_draw_fence ==
    /\ pc = "wait_draw_fence"
    /\ fence.draw
    /\ fence' = [fence EXCEPT !.draw = FALSE]
    /\ pc' = "record"
    /\ UNCHANGED <<descriptor, sbt, align, acquire_fence, snapshot, memory_lookup, build_command_buffer, presents, layout, present_index, commands, old_swapchain, ret, todo, windowSize, resizeEvent, resizes, resized,
                   surface_resolution, h, gpu, extent, queue, acquirePending,
                   as_state, sizes_count, range_count, instance_count, instances,
                   dispatch, panic_cause>>

\* width and height handed to cmd_trace_rays
DispatchExtent(s, res) == IF s = "rt" THEN <<WIDTH, HEIGHT>> ELSE res

\* update_camera: make the previous read visible, write the uniforms, make the write visible
UpdateCameraCommands(s) ==
    IF s = "app" THEN <<Cmd("pipeline_barrier"), Cmd("update_buffer"), Cmd("pipeline_barrier")>>
    ELSE <<>>

\* what the rt crate records into draw_command_buffer: an empty render pass on
\* the acquired image (initial_layout UNDEFINED, final_layout PRESENT_SRC_KHR)
DrawCommands(s) ==
    IF s = "rt"
    THEN <<[op |-> "begin_render_pass", image |-> "swapchain_image",
            old |-> "UNDEFINED", new |-> "PRESENT_SRC_KHR"],
           Cmd("end_render_pass")>>
    ELSE <<>>

\* fault variant: the frame leaves the rt-output image in TRANSFER_SRC_OPTIMAL
RtPassCommands_NoRestore ==
    <<Cmd("bind_pipeline"), Cmd("bind_descriptor_sets"), Cmd("trace_rays"),
      ImageBarrier("swapchain_image", "UNDEFINED", "TRANSFER_DST_OPTIMAL"),
      ImageBarrier("rt_image", "GENERAL", "TRANSFER_SRC_OPTIMAL"),
      Cmd("copy_image"),
      ImageBarrier("swapchain_image", "TRANSFER_DST_OPTIMAL", "PRESENT_SRC_KHR")>>
\* the "full rt pass", then the barriers around the copy into the swapchain image
RtPassCommands ==
    <<Cmd("bind_pipeline"), Cmd("bind_descriptor_sets"), Cmd("trace_rays"),
      ImageBarrier("swapchain_image", "UNDEFINED", "TRANSFER_DST_OPTIMAL"),
      ImageBarrier("rt_image", "GENERAL", "TRANSFER_SRC_OPTIMAL"),
      Cmd("copy_image"),
      ImageBarrier("swapchain_image", "TRANSFER_DST_OPTIMAL", "PRESENT_SRC_KHR"),
      ImageBarrier("rt_image", "TRANSFER_SRC_OPTIMAL", "GENERAL")>>

\* reset_command_buffer, begin, update_camera, trace rays, barriers and copy, end
main_loop_record ==
    /\ pc = "record"
    /\ dispatch' = DispatchExtent(snapshot, surface_resolution)
    /\ commands' = [draw_command_buffer |-> DrawCommands(snapshot),
                    rt_command_buffer |-> UpdateCameraCommands(snapshot) \o RtPassCommands]
    /\ pc' = "submit"
    /\ UNCHANGED <<descriptor, sbt, align, acquire_fence, snapshot, memory_lookup, build_command_buffer, presents, layout, present_index, old_swapchain, ret, todo, windowSize, resizeEvent, resizes, resized,
                   surface_resolution, h, gpu, extent, queue, fence, acquirePending,
                   as_state, sizes_count, range_count, instance_count, instances,
                   panic_cause>>

\* the command buffers of the frame submission, in submission order
FrameCommandBuffers(s) ==
    IF s = "rt" THEN <<"draw_command_buffer", "rt_command_buffer">>
    ELSE <<"rt_command_buffer">>

RECURSIVE Flattened(_, _)
Flattened(names, cbs) ==
    IF names = <<>> THEN <<>> ELSE cbs[Head(names)] \o Flattened(Tail(names), cbs)

\* the commands of the frame submission, in execution order
SubmittedCommands(s) == Flattened(FrameCommandBuffers(s), commands)

\* the layouts of the rt-output image and of the acquired swapchain image
FrameLayouts ==
    [rt_image |-> layout.rt_image, swapchain_image |-> layout.present_images[present_index]]

\* the layouts after the frame submission has executed
LayoutsAfterFrame ==
    LET after == Executed(SubmittedCommands(snapshot), FrameLayouts)
    IN [rt_image |-> after.rt_image,
        present_images |-> [layout.present_images EXCEPT ![present_index] = after.swapchain_image]]

\* SubmitInfo of the frame and the fence handed to queue_submit
FrameSubmit ==
    [kind |-> "frame", fence |-> "draw", wait |-> "present_complete",
     stage |-> "COLOR_ATTACHMENT_OUTPUT", signal |-> "rendering_complete"]

\* fault variant: the frame is submitted without a fence
main_loop_submit_NullFence ==
    /\ pc = "submit"
    /\ queue' = Append(queue, [FrameSubmit EXCEPT !.fence = "none"])
    /\ layout' = LayoutsAfterFrame
    /\ pc' = "present"
    /\ UNCHANGED <<descriptor, sbt, align, acquire_fence, snapshot, memory_lookup, build_command_buffer, presents, present_index, commands, old_swapchain, ret, todo, windowSize, resizeEvent, resizes, resized,
                   surface_resolution, h, gpu, extent, fence, acquirePending,
                   as_state, sizes_count, range_count, instance_count, instances,
                   dispatch, panic_cause>>
\* queue_submit(..., draw_commands_reuse_fence)
main_loop_submit ==
    /\ pc = "submit"
    /\ queue' = Append(queue, FrameSubmit)
    /\ layout' = LayoutsAfterFrame
    /\ pc' = "present"
    /\ UNCHANGED <<descriptor, sbt, align, acquire_fence, snapshot, memory_lookup, build_command_buffer, presents, present_index, commands, old_swapchain, ret, todo, windowSize, resizeEvent, resizes, resized,
                   surface_resolution, h, gpu, extent, fence, acquirePending,
                   as_state, sizes_count, range_count, instance_count, instances,
                   dispatch, panic_cause>>

\* fault variant: the presentation request waits on no semaphore
PresentInfo_NoWait(i) == [wait |-> "none", image |-> i]
\* PresentInfoKHR: wait_semaphores, swapchains, image_indices
PresentInfo(i) == [wait |-> "rendering_complete", image |-> i]

\* queue_present and the match on its result; the request is queued also when
\* the result is ERROR_OUT_OF_DATE_KHR
main_loop_present ==
    /\ pc = "present"
    /\ \/ /\ pc' = "idle"
          /\ UNCHANGED <<ret, panic_cause>>
       \/ /\ SwapchainStale
          /\ IF snapshot = "app"
             THEN pc' = "recreate_swapchain" /\ ret' = "out_of_date" /\ UNCHANGED panic_cause
             ELSE pc' = PanicPc(snapshot) /\ panic_cause' = "present_out_of_date" /\ UNCHANGED ret
    /\ presents' = Append(presents, PresentInfo(present_index))
    /\ present_index' = 0
    /\ UNCHANGED <<descriptor, sbt, align, acquire_fence, snapshot, memory_lookup, build_command_buffer, layout, commands, old_swapchain, todo, windowSize, resizeEvent, resizes, resized,
                   surface_resolution, h, gpu, extent, queue, fence, acquirePending,
                   as_state, sizes_count, range_count, instance_count, instances,
                   dispatch>>

----------------------------------------------------------------------------
(* Teardown *)

\* fault variant: the old rt-output image is never destroyed
CleanupSwapchainOrder_LeakRtImage ==
    <<"rt_image_view", "rt_image_memory", "framebuffers", "render_pass",
      "present_image_views", "depth_image", "depth_image_view", "depth_image_memory",
      "swapchain">>
\* destroy calls of cleanup_swapchain, in program order
CleanupSwapchainOrder ==
    <<"rt_image_view", "rt_image", "rt_image_memory", "framebuffers", "render_pass",
      "present_image_views", "depth_image", "depth_image_view", "depth_image_memory",
      "swapchain">>

\* fault variant: the resize path also tears down the top-level acceleration structure
RecreateDestroyOrder_WithTlas(s) ==
    <<"top_as">> \o
    (IF s = "vkc" THEN CleanupSwapchainOrder
     ELSE SubSeq(CleanupSwapchainOrder, 1, Len(CleanupSwapchainOrder) - 1))
\* what recreate_swapchain destroys before it installs the new swapchain
RecreateDestroyOrder(s) ==
    IF s = "vkc" THEN CleanupSwapchainOrder
    ELSE SubSeq(CleanupSwapchainOrder, 1, Len(CleanupSwapchainOrder) - 1)

\* destroy calls of Drop (of the end of main for "rt"), in program order
DropOrder(s) ==
    CASE s = "app" ->
           CleanupSwapchainOrder \o
           <<"rt_descriptor_pool", "uniforms_descriptor_pool", "pipeline",
             "rt_descriptor_set_layout", "uniforms_descriptor_set_layout", "pipeline_layout",
             "bottom_as", "top_as", "bottom_as_buffer", "top_as_buffer",
             "colors_buffer", "instance_buffer", "aabb_buffer",
             "shader_binding_table_buffer", "uniforms_buffer", "voxels_buffer">>
      [] s = "vkc" ->
           CleanupSwapchainOrder \o
           <<"rt_descriptor_pool", "uniforms_descriptor_pool", "pipeline",
             "rt_descriptor_set_layout", "uniforms_descriptor_set_layout", "pipeline_layout",
             "bottom_as", "top_as", "bottom_as_buffer", "top_as_buffer",
             "palette_buffer", "instance_buffer", "index_buffer", "vertex_buffer",
             "shader_binding_table_buffer", "uniforms_buffer", "voxels_buffer">>
      [] s = "rtb" ->
           CleanupSwapchainOrder \o
           <<"rt_descriptor_pool", "pipeline", "rt_descriptor_set_layout", "pipeline_layout",
             "bottom_as", "top_as", "bottom_as_buffer", "top_as_buffer",
             "colors_buffer", "instance_buffer", "aabb_buffer",
             "shader_binding_table_buffer">>
      [] s = "rt" ->
           <<"rt_descriptor_pool", "shader_binding_table_buffer", "pipeline",
             "rt_descriptor_set_layout", "pipeline_layout",
             "bottom_as", "bottom_as_buffer", "top_as", "top_as_buffer",
             "rt_image_view", "rt_image", "rt_image_memory",
             "instance_buffer", "aabb_buffer", "framebuffers", "render_pass">>

\* one destroy call of the running teardown routine
destroy_next ==
    /\ pc \in {"recreate_destroy", "drop_destroy"}
    /\ todo # <<>>
    /\ gpu' = Destroy(gpu, Head(todo), h[Head(todo)])
    /\ todo' = Tail(todo)
    /\ pc' = IF Tail(todo) # <<>> THEN pc
             ELSE IF pc = "drop_destroy" THEN "done"
             ELSE IF snapshot = "vkc" THEN "recreate_install" ELSE "recreate_create"
    /\ UNCHANGED <<descriptor, sbt, align, acquire_fence, snapshot, memory_lookup, build_command_buffer, presents, layout, present_index, commands, old_swapchain, ret, windowSize, resizeEvent, resizes, resized,
                   surface_resolution, h, extent, queue, fence, acquirePending,
                   as_state, sizes_count, range_count, instance_count, instances,
                   dispatch, panic_cause>>

----------------------------------------------------------------------------
(* Resize: recreate_swapchain *)

\* fault variant: recreate_swapchain without device_wait_idle
recreate_swapchain_NoWait ==
    /\ pc = "recreate_swapchain"
    /\ surface_resolution' = windowSize
    /\ gpu' = IF snapshot = "vkc" THEN Create(gpu, "swapchain") ELSE gpu
    /\ old_swapchain' = IF snapshot = "vkc" THEN h.swapchain ELSE old_swapchain
    /\ todo' = RecreateDestroyOrder(snapshot)
    /\ pc' = "recreate_destroy"
    /\ UNCHANGED <<descriptor, sbt, align, acquire_fence, snapshot, memory_lookup, build_command_buffer, presents, layout, present_index, commands, ret, windowSize, resizeEvent, resizes, resized,
                   h, extent, queue, fence, acquirePending,
                   as_state, sizes_count, range_count, instance_count, instances,
                   dispatch, panic_cause>>
\* device_wait_idle, read window.inner_size(); VkController creates the new
\* swapchain here, before cleanup_swapchain
recreate_swapchain ==
    /\ pc = "recreate_swapchain"
    /\ QueueIdle
    /\ surface_resolution' = windowSize
    /\ gpu' = IF snapshot = "vkc" THEN Create(gpu, "swapchain") ELSE gpu
    /\ old_swapchain' = IF snapshot = "vkc" THEN h.swapchain ELSE old_swapchain
    /\ todo' = RecreateDestroyOrder(snapshot)
    /\ pc' = "recreate_destroy"
    /\ UNCHANGED <<descriptor, sbt, align, acquire_fence, snapshot, memory_lookup, build_command_buffer, presents, layout, present_index, commands, ret, windowSize, resizeEvent, resizes, resized,
                   h, extent, queue, fence, acquirePending,
                   as_state, sizes_count, range_count, instance_count, instances,
                   dispatch, panic_cause>>

\* fault variant: the old swapchain is destroyed before the new one is created
recreate_swapchain_create_DestroyFirst ==
    /\ pc = "recreate_create"
    /\ gpu' = Create(Destroy(gpu, "swapchain", h.swapchain), "swapchain")
    /\ old_swapchain' = h.swapchain
    /\ pc' = "recreate_install"
    /\ UNCHANGED <<descriptor, sbt, align, acquire_fence, snapshot, memory_lookup, build_command_buffer, presents, layout, present_index, commands, ret, todo, windowSize,
                   resizeEvent, resizes, resized, surface_resolution, h, extent, queue, fence,
                   acquirePending, as_state, sizes_count, range_count, instance_count,
                   instances, dispatch, panic_cause>>
\* AppBase: create_swapchain with old_swapchain(self.swapchain), after the
\* swapchain-dependent objects were destroyed
recreate_swapchain_create ==
    /\ pc = "recreate_create"
    /\ gpu' = Create(gpu, "swapchain")
    /\ old_swapchain' = h.swapchain
    /\ pc' = "recreate_install"
    /\ UNCHANGED <<descriptor, sbt, align, acquire_fence, snapshot, memory_lookup, build_command_buffer, presents, layout, present_index, commands, ret, todo, windowSize,
                   resizeEvent, resizes, resized, surface_resolution, h, extent, queue, fence,
                   acquirePending, as_state, sizes_count, range_count, instance_count,
                   instances, dispatch, panic_cause>>

\* AppBase destroys the old swapchain (cleanup_swapchain of VkController already
\* did); both store the new handle in self.swapchain
recreate_swapchain_install ==
    /\ pc = "recreate_install"
    /\ gpu' = IF snapshot = "vkc" THEN gpu ELSE Destroy(gpu, "swapchain", h.swapchain)
    /\ h' = StoreLatest(h, gpu', {"swapchain"})
    /\ extent' = [extent EXCEPT !.swapchain = surface_resolution]
    /\ pc' = "create_image_views"
    /\ UNCHANGED <<descriptor, sbt, align, acquire_fence, snapshot, memory_lookup, build_command_buffer, presents, layout, present_index, commands, old_swapchain, ret, todo, windowSize, resizeEvent, resizes, resized,
                   surface_resolution, queue, fence, acquirePending,
                   as_state, sizes_count, range_count, instance_count, instances,
                   dispatch, panic_cause>>

----------------------------------------------------------------------------
(* Shutdown: Drop *)

\* wait_for_fences(swapchain_acquire_fence, u64::MAX)
drop_wait_fence ==
    /\ pc = "drop_wait_fence"
    /\ fence.acquire
    /\ pc' = "drop_wait_idle"
    /\ UNCHANGED <<descriptor, sbt, align, acquire_fence, snapshot, memory_lookup, build_command_buffer, presents, layout, present_index, commands, old_swapchain, ret, todo, windowSize, resizeEvent, resizes, resized,
                   surface_resolution, h, gpu, extent, queue, fence, acquirePending,
                   as_state, sizes_count, range_count, instance_count, instances,
                   dispatch, panic_cause>>

\* device_wait_idle, then the destroy calls
drop_wait_idle ==
    /\ pc = "drop_wait_idle"
    /\ QueueIdle
    /\ todo' = DropOrder(snapshot)
    /\ pc' = "drop_destroy"
    /\ UNCHANGED <<descriptor, sbt, align, acquire_fence, snapshot, memory_lookup, build_command_buffer, presents, layout, present_index, commands, old_swapchain, ret, windowSize, resizeEvent, resizes, resized,
                   surface_resolution, h, gpu, extent, queue, fence, acquirePending,
                   as_state, sizes_count, range_count, instance_count, instances,
                   dispatch, panic_cause>>

----------------------------------------------------------------------------
(* Specification *)

Next ==
    \/ GpuComplete
    \/ AcquireSignal
    \/ PresentExecute
    \/ WindowResize
    \/ create_swapchain
    \/ create_image_views
    \/ create_framebuffers
    \/ create_rt_image
    \/ create_rt_image_wait
    \/ create_geometry
    \/ create_bottom_as
    \/ create_bottom_as_wait
    \/ create_as_instances
    \/ create_top_as
    \/ create_top_as_wait
    \/ create_buffers
    \/ create_descriptor_sets
    \/ create_rt_sbt
    \/ window_event_Resized
    \/ on_resize
    \/ window_event_RedrawRequested
    \/ window_event_CloseRequested
    \/ main_loop_wait_acquire_fence
    \/ main_loop_acquire
    \/ main_loop_wait_draw_fence
    \/ main_loop_record
    \/ main_loop_submit
    \/ main_loop_present
    \/ recreate_swapchain
    \/ recreate_swapchain_create
    \/ recreate_swapchain_install
    \/ destroy_next
    \/ drop_wait_fence
    \/ drop_wait_idle

Spec == Init /\ [][Next]_vars

----------------------------------------------------------------------------
(* aligned_size on its own: every call with a positive value and a power-of-two *)
(* alignment, in a build with and in a build without overflow checks           *)

\* halves the sampled values are put together from
SampleHalves == {0, 1, 31, 32, 33, 63, 64, 65, Half - 64, Half - 1}

AlignValues == (SampleHalves \X SampleHalves) \ {U32Zero}

AlignAlignments == {Pow2U32(k) : k \in 0..(U32Bits - 1)}

AlignInit ==
    /\ snapshot = "rt"
    /\ windowSize = DefaultExtent
    /\ surface_resolution = windowSize
    /\ pc = "aligned_size"
    /\ ret = "none"
    /\ todo = <<>>
    /\ resizeEvent = FALSE
    /\ resizes = 0
    /\ resized = FALSE
    /\ h = [k \in Kinds |-> 0]
    /\ gpu = [k \in Kinds |-> <<>>]
    /\ extent = [swapchain |-> windowSize, rt_image |-> NoExtent]
    /\ queue = <<>>
    /\ fence = [draw |-> TRUE, setup |-> TRUE, acquire |-> TRUE]
    /\ acquirePending = FALSE
    /\ as_state = [bottom_as |-> "none", top_as |-> "none"]
    /\ sizes_count = [bottom_as |-> 0, top_as |-> 0]
    /\ range_count = [bottom_as |-> 0, top_as |-> 0]
    /\ instance_count = 0
    /\ instances = <<>>
    /\ dispatch = NoExtent
    /\ panic_cause = "none"
    /\ descriptor = NoDescriptor
    /\ sbt = NoSbt
    /\ acquire_fence = "none"
    /\ old_swapchain = 0
    /\ layout = [rt_image |-> "UNDEFINED",
                 present_images |-> [i \in 1..SwapchainImages |-> "UNDEFINED"]]
    /\ present_index = 0
    /\ commands = NoCommands
    /\ presents = <<>>
    /\ build_command_buffer = NoBuildCommandBuffer
    /\ memory_lookup = NoLookup
    /\ \E value \in AlignValues, alignment \in AlignAlignments :
         align = [state |-> "called", value |-> value, alignment |-> alignment,
                  result |-> U32Zero]

\* the call returns the wrapped result, or panics where a step overflows and the
\* build checks for it
aligned_size_call ==
    /\ pc = "aligned_size"
    /\ align.state = "called"
    /\ \E overflow_checks \in BOOLEAN :
         IF overflow_checks /\ aligned_size_overflows(align.value, align.alignment)
         THEN align' = [align EXCEPT !.state = "panicked"]
         ELSE align' = [align EXCEPT !.state = "returned",
                                     !.result = aligned_size(align.value, align.alignment)]
    /\ pc' = "returned"
    /\ UNCHANGED <<descriptor, sbt, acquire_fence, snapshot, memory_lookup, build_command_buffer, presents, layout, present_index, commands, old_swapchain, ret, todo, windowSize, resizeEvent,
                   resizes, resized, surface_resolution, h, gpu, extent, queue, fence,
                   acquirePending, as_state, sizes_count, range_count, instance_count,
                   instances, dispatch, panic_cause>>

AlignNext == aligned_size_call

AlignSpec == AlignInit /\ [][AlignNext]_vars

----------------------------------------------------------------------------
(* get_memory_type_index as a function of its arguments *)

MaxMemoryTypes == 2

\* the property flags a memory type or a request may carry
MemoryPropertyFlags == {"DEVICE_LOCAL", "HOST_VISIBLE"}

\* iterations i .. memory_type_count - 1 of the loop, then the fall-through
RECURSIVE get_memory_type_index_from(_, _, _, _)
get_memory_type_index_from(memory_types, type_bits, properties, i) ==
    IF i >= Len(memory_types) THEN 0
    ELSE IF type_bits % 2 = 1 /\ (memory_types[i + 1] \cap properties) = properties
         THEN i
         ELSE get_memory_type_index_from(memory_types, type_bits \div 2, properties, i + 1)

get_memory_type_index(memory_types, type_bits, properties) ==
    get_memory_type_index_from(memory_types, type_bits, properties, 0)

MemoryInit ==
    /\ snapshot = "rt"
    /\ windowSize = DefaultExtent
    /\ surface_resolution = windowSize
    /\ pc = "get_memory_type_index"
    /\ ret = "none"
    /\ todo = <<>>
    /\ resizeEvent = FALSE
    /\ resizes = 0
    /\ resized = FALSE
    /\ h = [k \in Kinds |-> 0]
    /\ gpu = [k \in Kinds |-> <<>>]
    /\ extent = [swapchain |-> windowSize, rt_image |-> NoExtent]
    /\ queue = <<>>
    /\ fence = [draw |-> TRUE, setup |-> TRUE, acquire |-> TRUE]
    /\ acquirePending = FALSE
    /\ as_state = [bottom_as |-> "none", top_as |-> "none"]
    /\ sizes_count = [bottom_as |-> 0, top_as |-> 0]
    /\ range_count = [bottom_as |-> 0, top_as |-> 0]
    /\ instance_count = 0
    /\ instances = <<>>
    /\ dispatch = NoExtent
    /\ panic_cause = "none"
    /\ descriptor = NoDescriptor
    /\ sbt = NoSbt
    /\ acquire_fence = "none"
    /\ old_swapchain = 0
    /\ layout = [rt_image |-> "UNDEFINED",
                 present_images |-> [i \in 1..SwapchainImages |-> "UNDEFINED"]]
    /\ present_index = 0
    /\ commands = NoCommands
    /\ presents = <<>>
    /\ build_command_buffer = NoBuildCommandBuffer
    /\ align = NoCall
    /\ \E n \in 0..MaxMemoryTypes :
         \E memory_types \in [1..n -> SUBSET MemoryPropertyFlags],
            type_bits \in 0..(2 ^ (MaxMemoryTypes + 1) - 1),
            properties \in SUBSET MemoryPropertyFlags :
           memory_lookup = [state |-> "called", memory_types |-> memory_types,
                            type_bits |-> type_bits, properties |-> properties,
                            result |-> 0]

get_memory_type_index_call ==
    /\ pc = "get_memory_type_index"
    /\ memory_lookup.state = "called"
    /\ memory_lookup' = [memory_lookup EXCEPT
                            !.state = "returned",
                            !.result = get_memory_type_index(memory_lookup.memory_types,
                                                             memory_lookup.type_bits,
                                                             memory_lookup.properties)]
    /\ pc' = "returned"
    /\ UNCHANGED <<descriptor, sbt, align, acquire_fence, snapshot, build_command_buffer, presents, layout, present_index, commands, old_swapchain, ret, todo, windowSize, resizeEvent,
                   resizes, resized, surface_resolution, h, gpu, extent, queue, fence,
                   acquirePending, as_state, sizes_count, range_count, instance_count,
                   instances, dispatch, panic_cause>>

MemoryNext == get_memory_type_index_call

MemorySpec == MemoryInit /\ [][MemoryNext]_vars

TypeOK ==
    /\ build_command_buffer.allocated \in BOOLEAN
    /\ build_command_buffer.allocated => pc \in {"create_rt_image_wait", "create_bottom_as_wait", "create_top_as_wait"}
    /\ snapshot \in Snapshots
    /\ ret \in {"none", "resized", "out_of_date", "on_resize"}
    /\ windowSize \in WindowExtents
    /\ resizes \in 0..MaxResizes
    /\ \A k \in Kinds : h[k] \in 0..Len(gpu[k])
    /\ panic_cause \in {"none", "acquire_out_of_date", "present_out_of_date"}

----------------------------------------------------------------------------
(* Properties *)

FramePending == \E i \in 1..Len(queue) : queue[i].kind = "frame"

BuildPending == \E i \in 1..Len(queue) : queue[i].kind \in {"blas_build", "tlas_build"}

\* the process has ended, or Drop is blocked on a fence nothing will signal
Terminated ==
    \/ pc \in {"done", "aborted"}
    \/ pc = "drop_wait_fence" /\ ~fence.acquire /\ ~acquirePending

\* C1: the draw command buffer is reset and re-recorded only after the wait on
\* the draw-reuse fence returned, so no submission of it is pending while it is
\* reset, recorded or about to be submitted, and at most one submission of it
\* is in flight at any instant.
C1_DrawFenceWaitPrecedesReset ==
    /\ Cardinality({i \in 1..Len(queue) : queue[i].kind = "frame"}) <= 1
    /\ pc \in {"record", "submit"} => ~FramePending

\* a second or later frame is being recorded
C1_Witness == pc = "record" /\ dispatch # NoExtent

\* C2: an out-of-date result of acquire-next-image never becomes a panic.
C2_AcquireOutOfDateRecovered == panic_cause # "acquire_out_of_date"

\* C3: an out-of-date result of present never becomes a panic.
C3_PresentOutOfDateRecovered == panic_cause # "present_out_of_date"

\* C4 as stated: in the frame loop, a running swapchain recreation was entered
\* from the point of main_loop that lies between a fence wait and the
\* following submit (the `if self.resized` branch).
C4_RecreateBetweenWaitAndSubmit ==
    (snapshot = "app" /\ ret # "none") => ret = "resized"

\* C4 amended: once recreate_swapchain is past its device idle-wait, and while
\* the frame's commands (the uniform update among them) are recorded, no frame
\* submission is pending on the GPU.
C4_NoMutationWhileFramePending ==
    /\ (ret # "none" /\ pc # "recreate_swapchain") => ~FramePending
    /\ pc = "record" => ~FramePending

\* the recreation triggered by an out-of-date present is destroying resources
C4_Witness == ret = "out_of_date" /\ pc = "recreate_destroy" /\ dispatch # NoExtent

\* C5: when rays have been dispatched, the dispatch size, the rt-output image
\* extent and the swapchain extent all equal the surface resolution.
C5_LockStep ==
    pc = "submit" =>
        /\ dispatch = surface_resolution
        /\ extent.rt_image = surface_resolution
        /\ extent.swapchain = surface_resolution

\* C6: while a TLAS object exists, the BLAS its instances reference exists.
C6_BlasOutlivesTlas ==
    (\E n \in 1..Len(gpu.top_as) : Alive("top_as", n)) =>
        \A i \in 1..Len(instances) : Alive("bottom_as", instances[i])

\* C7: every instance record holds the address of the BLAS, and that BLAS has
\* been built: its one-shot build left the queue before the address was read.
C7_AddressFromBuiltBlas ==
    instances # <<>> =>
        /\ as_state.bottom_as = "built"
        /\ \A i \in 1..Len(instances) : instances[i] # 0 /\ instances[i] = h.bottom_as

\* the instance records have just been written
C7_Witness == instances # <<>> /\ pc = "create_top_as"

\* C8: a scratch buffer stays alive while its build is on the queue, is
\* destroyed once, and none is alive outside of a build function.
C8_ScratchDestroyedAfterBuild ==
    /\ BuildPending => Alive("scratch_buffer", h.scratch_buffer)
    /\ (\E n \in 1..Len(gpu.scratch_buffer) : Alive("scratch_buffer", n)) =>
           pc \in {"create_bottom_as_wait", "create_top_as_wait"}
    /\ \A n \in 1..Len(gpu.scratch_buffer) : gpu.scratch_buffer[n] <= 1

\* both builds have returned and both scratch buffers are gone
C8_Witness ==
    /\ as_state.top_as = "built"
    /\ pc \notin {"create_bottom_as_wait", "create_top_as_wait"}
    /\ Len(gpu.scratch_buffer) = 2
    /\ \A n \in 1..2 : gpu.scratch_buffer[n] = 1

\* C9: for each acceleration structure whose build was recorded, the primitive
\* count of the size query equals the primitive count of the build range.
C9_CountsMatch ==
    \A a \in {"bottom_as", "top_as"} :
        as_state[a] # "none" => sizes_count[a] = range_count[a]

\* both acceleration structures have been built
C9_Witness ==
    /\ as_state.bottom_as = "built" /\ range_count.bottom_as > 0
    /\ as_state.top_as = "built" /\ range_count.top_as > 0

\* C10: no object is destroyed twice, and when the program has ended every
\* object that was created has been destroyed.
C10_DestroyedExactlyOnce ==
    /\ \A k \in Kinds : \A n \in 1..Len(gpu[k]) : gpu[k][n] <= 1
    /\ Terminated => \A k \in Kinds : \A n \in 1..Len(gpu[k]) : gpu[k][n] = 1

\* the CPU thread is in a frame step or in the resize path
InFrameOrResize ==
    \/ pc \in {"wait_acquire_fence", "acquire", "wait_draw_fence", "record", "submit", "present"}
    \/ ret # "none"

AsKinds == {"bottom_as", "bottom_as_buffer", "top_as", "top_as_buffer", "instance_buffer"}

\* C11: after initialisation no frame step and no step of the resize path
\* rebuilds, modifies or destroys the BLAS, the TLAS or the shader binding table:
\* their handles, driver objects, build state, instance records, table layout and
\* the descriptor binding of the TLAS stay as they are.
C11_FrameAndResizeKeepAsAndSbt ==
    [][InFrameOrResize =>
          /\ \A k \in AsKinds \cup {"shader_binding_table_buffer"} :
                h'[k] = h[k] /\ gpu'[k] = gpu[k]
          /\ as_state' = as_state
          /\ instances' = instances
          /\ sbt' = sbt
          /\ descriptor'.tlas = descriptor.tlas]_vars

\* a frame was rendered after a completed resize, with BLAS, TLAS and SBT intact
C11_Witness ==
    /\ pc = "present"
    /\ Len(gpu.swapchain) >= 2
    /\ sbt.built
    /\ \A k \in AsKinds \cup {"shader_binding_table_buffer"} : Alive(k, h[k])
    /\ as_state.bottom_as = "built" /\ as_state.top_as = "built"
\* the objects recreate_swapchain replaces
SwapchainKinds ==
    {"swapchain", "present_image_views", "depth_image", "depth_image_memory",
     "depth_image_view", "render_pass", "framebuffers",
     "rt_image", "rt_image_memory", "rt_image_view"}

\* the live driver objects of kind k
AliveSet(k) == {n \in 1..Len(gpu[k]) : gpu[k][n] = 0}

\* the state a completed resize leaves, as a function of the resolution alone:
\* one live object per swapchain-dependent field, created at the resolution,
\* and the descriptor set naming the live rt-output view and the TLAS
ResizeEndState(res) ==
    /\ extent.swapchain = res
    /\ extent.rt_image = res
    /\ \A k \in SwapchainKinds : AliveSet(k) = {h[k]} \ {0}
    /\ descriptor.set => /\ descriptor.image_view = h.rt_image_view
                         /\ descriptor.tlas = h.top_as

\* recreate_swapchain has run at least once and no call of it is in progress
ResizeCompleted ==
    /\ snapshot # "rt"
    /\ Len(gpu.swapchain) >= 2
    /\ ret = "none"
    /\ pc \in {"idle", "wait_acquire_fence", "acquire", "wait_draw_fence",
               "record", "submit", "present"}

\* C12: the resize path is idempotent: however many times it has run, the rt
\* image, the swapchain and the descriptor bindings it leaves are determined by
\* the resolution it read, so running it again at the same resolution leaves
\* the state one run leaves.
C12_ResizeIdempotent == ResizeCompleted => ResizeEndState(surface_resolution)

\* the resize path has run twice in succession while the window was resized once,
\* so the second run read the resolution of the first
C12_Witness ==
    /\ ResizeCompleted
    /\ pc = "acquire"
    /\ Len(gpu.swapchain) = 3
    /\ resizes = 1
    /\ descriptor.set
\* the smallest multiple of a that is not below v
RoundedUp(v, a) == CHOOSE m \in v..(v + a) : m % a = 0 /\ \A n \in v..(m - 1) : n % a # 0

\* C13: for the pipeline whose shader groups are [raygen, hit, hit, miss], the
\* table built by create_rt_sbt has the raygen region at offset 0, the hit
\* region at one aligned handle size with a size of two, and the miss region at
\* three; the offsets depend on the aligned handle size only, so every build
\* on the same device yields the same relative offsets.
C13_SbtRegionOffsets ==
    (sbt.built /\ ShaderGroups(snapshot) = <<"raygen", "hit", "hit", "miss">>) =>
        LET aligned == RoundedUp(sbt.handle_size, sbt.base_alignment)
        IN /\ sbt.raygen.offset = 0
           /\ sbt.hit.offset = aligned
           /\ sbt.hit.size = 2 * aligned
           /\ sbt.miss.offset = 3 * aligned
           /\ \A i \in 1..4 :
                 LET region == sbt[ShaderGroups(snapshot)[i]]
                 IN sbt.slots[i] \in region.offset..(region.offset + region.size - 1)

\* the four-group table was built on a device whose handle size is not aligned
C13_Witness ==
    /\ sbt.built
    /\ ShaderGroups(snapshot) = <<"raygen", "hit", "hit", "miss">>
    /\ sbt.handle_size = 32
    /\ sbt.base_alignment = 64
    /\ sbt.miss.offset = 192
\* the call under study is over and gave a result with these properties
AlignedResult ==
    /\ align.state = "returned"
    /\ ~Less32(align.result, align.value)
    /\ Mod32(align.result, align.alignment) = U32Zero

\* C14 as stated: for every positive 32-bit value and every power-of-two
\* alignment, aligned_size returns a multiple of the alignment that is not
\* below the value.
C14_AlignedSizeLaw == align.state \in {"returned", "panicked"} => AlignedResult

\* C14: whenever value + alignment fits in 32 bits, aligned_size returns a
\* multiple of the alignment that is not below the value; aligned_size(32, 64)
\* and aligned_size(64, 64) are 64.
C14_AlignedSizeLawInRange ==
    (align.state \in {"returned", "panicked"}
       /\ ~AddOverflows(align.value, align.alignment)) =>
        /\ AlignedResult
        /\ (align.value \in {ToU32(32), ToU32(64)} /\ align.alignment = ToU32(64))
              => align.result = ToU32(64)

\* aligned_size(32, 64) returned 64
C14_Witness ==
    /\ align.state = "returned"
    /\ align.value = ToU32(32)
    /\ align.alignment = ToU32(64)
    /\ align.result = ToU32(64)
\* C15: every acquire_next_image is handed the swapchain-acquire fence, and the
\* frame step reaches the call only after it waited on that fence and reset it,
\* so the fence is unsignalled and no earlier acquire is still to signal it.
C15_AcquireAfterFenceWaitAndReset ==
    /\ acquire_fence \in {"none", "acquire"}
    /\ pc = "acquire" => ~fence.acquire /\ ~acquirePending

\* C16: whenever Drop waits on the swapchain-acquire fence, the fence is
\* signalled or an acquire that was handed it is still to signal it.
C16_DropFenceWaitReturns ==
    pc = "drop_wait_fence" => fence.acquire \/ (acquirePending /\ acquire_fence = "acquire")
\* a submission that will signal fence f is on the queue
SubmitPending(f) == \E i \in 1..Len(queue) : queue[i].fence = f

\* C17: whenever a frame step waits on the draw-reuse fence or on the
\* swapchain-acquire fence, the fence is signalled (as created, or by the
\* operation it was handed to) or the submit / acquire it was handed to after
\* its last reset is still to signal it, so the wait returns.
C17_FrameFenceWaitsReturn ==
    /\ pc = "wait_draw_fence" => fence.draw \/ SubmitPending("draw")
    /\ pc = "wait_acquire_fence" =>
          fence.acquire \/ (acquirePending /\ acquire_fence = "acquire")

\* after a resize, a frame step waits on the draw-reuse fence while the previous
\* frame's submission has not signalled it yet
C17_Witness ==
    /\ pc = "wait_draw_fence"
    /\ ~fence.draw
    /\ SubmitPending("draw")
    /\ Len(gpu.swapchain) >= 2
\* <<view, image, memory>> fields that are created together: handle n of the
\* view was created from handle n of the image, which is bound to handle n of
\* the memory
ImageTriples ==
    {<<"rt_image_view", "rt_image", "rt_image_memory">>,
     <<"depth_image_view", "depth_image", "depth_image_memory">>}

Destroyed(k, n) == gpu[k][n] > 0

\* at every moment, a destroyed image has its view destroyed and a freed memory
\* has its image destroyed
DependencyOrder(t) ==
    \A n \in 1..Len(gpu[t[2]]) :
        /\ Destroyed(t[2], n) => Destroyed(t[1], n)
        /\ Destroyed(t[3], n) => Destroyed(t[2], n)

\* C18: the swapchain-dependent resources are torn down in dependency order:
\* every image view is destroyed before the image it was created from
\* (swapchain image views before their swapchain), and every image before its
\* memory is freed.
C18_TeardownInDependencyOrder ==
    /\ \A t \in ImageTriples : DependencyOrder(t)
    /\ \A n \in 1..Len(gpu.present_image_views) :
          Destroyed("swapchain", n) => Destroyed("present_image_views", n)
\* this step makes a destroy call on an object of kind k / creates one
DestroysIn(k) == \E n \in 1..Len(gpu[k]) : gpu'[k][n] > gpu[k][n]
CreatesIn(k) == Len(gpu'[k]) > Len(gpu[k])

\* device_wait_idle of recreate_swapchain has returned and nothing was submitted since
AfterIdleWait ==
    /\ pc \in {"recreate_destroy", "recreate_create", "recreate_install"}
    /\ QueueIdle

\* the objects that depend on the swapchain
SwapchainDependents == SwapchainKinds \ {"swapchain"}

\* the create_* calls that end the resize path run once the old generation is
\* gone and the new swapchain is installed at the resolution read
RecreatesAfterInstall ==
    \A k \in SwapchainDependents :
        CreatesIn(k) => /\ AliveSet(k) = {}
                        /\ AliveSet("swapchain") = {h.swapchain}
                        /\ extent.swapchain = surface_resolution

\* C19 as stated: in the resize path every destroy call follows the idle wait,
\* the new swapchain is created (old one chained) only after the dependent
\* objects and the old swapchain were destroyed, and the views, the depth
\* image and the rt-output image are recreated after that.
C19_DestroyAllThenRecreate ==
    [][ret # "none" =>
          /\ (\E k \in Kinds : DestroysIn(k)) => AfterIdleWait
          /\ CreatesIn("swapchain") =>
                /\ old_swapchain' = h.swapchain
                /\ \A k \in SwapchainKinds : AliveSet(k) = {}
          /\ RecreatesAfterInstall]_vars

\* C19: in the resize path every destroy call follows the idle wait; the new
\* swapchain is created with the still-live old swapchain chained, and the old
\* swapchain is destroyed only once the new one exists; the views, the depth
\* image and the rt-output image are recreated after the old generation is
\* destroyed and the new swapchain is installed at the new resolution.
C19_ResizeOrder ==
    [][ret # "none" =>
          /\ (\E k \in Kinds : DestroysIn(k)) => AfterIdleWait
          /\ CreatesIn("swapchain") =>
                /\ AfterIdleWait'
                /\ old_swapchain' = h.swapchain
                /\ Alive("swapchain", h.swapchain)
          /\ DestroysIn("swapchain") =>
                /\ Latest(gpu, "swapchain") > h.swapchain
                /\ gpu'.swapchain[h.swapchain] = 1
          /\ RecreatesAfterInstall]_vars

\* the resize path has replaced the swapchain: the new one was created with the
\* old one chained, the old one is destroyed, the views are about to be recreated
C19_Witness ==
    /\ ret # "none"
    /\ pc = "create_image_views"
    /\ old_swapchain # 0
    /\ Destroyed("swapchain", old_swapchain)
    /\ h.swapchain = old_swapchain + 1
    /\ Alive("swapchain", h.swapchain)
    /\ \A k \in SwapchainDependents : AliveSet(k) = {}
\* a frame that binds the rt descriptor set is being recorded, is recorded and
\* about to be submitted, or executes on the device
FrameUsesDescriptor == pc \in {"record", "submit"} \/ FramePending

\* C20: once the rt descriptor set exists, every completed create_rt_image
\* (so every resize) leaves its storage-image binding on the current rt-output
\* image view, and no frame is recorded, submitted or executing while the
\* binding refers to a destroyed view.
C20_DescriptorNamesLiveRtImageView ==
    descriptor.set =>
        /\ (ret = "none" /\ pc \in {"idle", "wait_acquire_fence", "acquire", "wait_draw_fence",
                                    "record", "submit", "present"})
              => descriptor.image_view = h.rt_image_view
        /\ FrameUsesDescriptor => Alive("rt_image_view", descriptor.image_view)

\* a frame is recorded after a resize replaced the rt-output image view
C20_Witness ==
    /\ descriptor.set
    /\ pc = "submit"
    /\ Len(gpu.rt_image_view) >= 2
    /\ Destroyed("rt_image_view", 1)
    /\ descriptor.image_view = Latest(gpu, "rt_image_view")
    /\ dispatch = surface_resolution
\* C21: in the application loop, a frame step that starts with the
\* pending-resize flag set reaches acquire_next_image only through one complete
\* recreate_swapchain (one new swapchain, the chained old one destroyed); the
\* flag is cleared only by the step that ends that recreation; and no acquire
\* is issued while the flag is set.
C21_ObservedResizeRecreatesOnce ==
    [][snapshot = "app" =>
          /\ (resized /\ pc # "acquire" /\ pc' = "acquire") =>
                /\ ret = "resized"
                /\ pc = "create_rt_image_wait"
                /\ h.swapchain = old_swapchain + 1
                /\ Alive("swapchain", h.swapchain)
                /\ Destroyed("swapchain", old_swapchain)
                /\ extent.swapchain = surface_resolution
          /\ (resized /\ ~resized') =>
                ret = "resized" /\ pc = "create_rt_image_wait" /\ pc' = "acquire"
          /\ pc' = "acquire" => ~resized']_vars

\* two resize events were observed as one pending flag; the frame step recreated
\* the swapchain once and is about to acquire from the new swapchain
C21_Witness ==
    /\ snapshot = "app"
    /\ pc = "acquire"
    /\ resizes = 2
    /\ ~resizeEvent
    /\ ~resized
    /\ Len(gpu.swapchain) = 2
    /\ Alive("swapchain", h.swapchain)

\* command c may name its old layout when the images are in layouts lay: the
\* layout the image has, or (unless strict) UNDEFINED for the swapchain image,
\* which discards its contents
OldLayoutOk(c, lay, strict) ==
    \/ c.image = "none"
    \/ c.old = lay[c.image]
    \/ ~strict /\ c.image = "swapchain_image" /\ c.old = "UNDEFINED"

\* replaying cmds from layouts lay: rays are dispatched with the rt-output
\* image in GENERAL and every transition names an admissible old layout
RECURSIVE LayoutsTracked(_, _, _)
LayoutsTracked(cmds, lay, strict) ==
    \/ cmds = <<>>
    \/ /\ Head(cmds).op = "trace_rays" => lay.rt_image = "GENERAL"
       /\ OldLayoutOk(Head(cmds), lay, strict)
       /\ LayoutsTracked(Tail(cmds), Executed(<<Head(cmds)>>, lay), strict)

\* C22 as stated: in every recorded frame the rays are dispatched with the
\* rt-output image in GENERAL and every layout transition names as old layout
\* the layout its image has at that point.
C22_EveryTransitionNamesActualLayout ==
    pc = "submit" => LayoutsTracked(SubmittedCommands(snapshot), FrameLayouts, TRUE)

\* C22: in every recorded frame the rays are dispatched with the rt-output image
\* in GENERAL, every transition of the rt-output image names the layout the
\* image has at that point, and every transition of the swapchain image names
\* the layout the image has or UNDEFINED.
C22_RtImageLayoutTracked ==
    pc = "submit" => LayoutsTracked(SubmittedCommands(snapshot), FrameLayouts, FALSE)

\* a frame recorded after a swapchain recreation, on a swapchain image that an
\* earlier frame after that recreation already left in PRESENT_SRC_KHR
C22_Witness ==
    /\ pc = "submit"
    /\ Len(gpu.rt_image) >= 2
    /\ h.rt_image = Latest(gpu, "rt_image")
    /\ layout.rt_image = "GENERAL"
    /\ layout.present_images[present_index] = "PRESENT_SRC_KHR"
    /\ commands.rt_command_buffer # <<>>

\* steps (a) to (f) of a frame
FrameProtocol ==
    <<Cmd("bind_pipeline"), Cmd("bind_descriptor_sets"), Cmd("trace_rays"),
      ImageBarrier("swapchain_image", "UNDEFINED", "TRANSFER_DST_OPTIMAL"),
      ImageBarrier("rt_image", "GENERAL", "TRANSFER_SRC_OPTIMAL"),
      Cmd("copy_image"),
      ImageBarrier("swapchain_image", "TRANSFER_DST_OPTIMAL", "PRESENT_SRC_KHR"),
      ImageBarrier("rt_image", "TRANSFER_SRC_OPTIMAL", "GENERAL")>>

\* binds, dispatches, copies and everything that touches an image
IsProtocolCommand(c) ==
    c.op \in {"bind_pipeline", "bind_descriptor_sets", "trace_rays", "copy_image"}
    \/ c.image # "none"

\* command buffer cb holds steps (a) to (f) once each, in that order
FollowsFrameProtocol(cb) == SelectSeq(cb, IsProtocolCommand) = FrameProtocol

\* C23: every command buffer recorded for a frame contains steps (a) to (f),
\* each once and in that order.
C23_FrameCommandOrder ==
    pc = "submit" =>
        \A name \in Range(FrameCommandBuffers(snapshot)) :
            FollowsFrameProtocol(commands[name])

\* C24: every frame submission waits on the present-complete semaphore at the
\* color-attachment-output stage and signals the render-complete semaphore and
\* the draw-reuse fence; every presentation request waits on the
\* render-complete semaphore; a frame submission executes only after the
\* acquire has signalled, and a presentation request only after the frame
\* submission has.
C24_SubmitAndPresentOrdered ==
    [][/\ \A i \in 1..Len(queue') :
            queue'[i].kind = "frame" => queue'[i] = [kind |-> "frame", fence |-> "draw",
                                                     wait |-> "present_complete",
                                                     stage |-> "COLOR_ATTACHMENT_OUTPUT",
                                                     signal |-> "rendering_complete"]
       /\ \A j \in 1..Len(presents') : presents'[j].wait = "rendering_complete"
       /\ (queue # <<>> /\ queue' = Tail(queue) /\ Head(queue).kind = "frame")
             => ~acquirePending
       /\ Len(presents') < Len(presents) => ~FramePending]_vars

\* a frame is submitted and its presentation requested while the acquire has
\* not signalled yet: the submission and the presentation are both held back
C24_Witness ==
    /\ pc = "idle"
    /\ acquirePending
    /\ FramePending
    /\ Len(presents) = 1

\* C25: in every TLAS build the command recorded immediately before the build
\* command, in the same command buffer, is a memory barrier from the transfer
\* write of the instance buffer to the read of the acceleration-structure
\* build stage.
C25_BarrierRightBeforeTlasBuild ==
    \A i \in 1..Len(build_command_buffer.commands) :
        build_command_buffer.commands[i] = BuildAccelerationStructures("TOP_LEVEL")
          => /\ i > 1
             /\ build_command_buffer.commands[i - 1] =
                  MemoryBarrier("TRANSFER", "TRANSFER_WRITE",
                                "ACCELERATION_STRUCTURE_BUILD_KHR",
                                "ACCELERATION_STRUCTURE_READ_KHR")

\* the labels at which a setup operation blocks in queue_wait_idle
OneShotWaits == {"create_rt_image_wait", "create_bottom_as_wait", "create_top_as_wait"}

\* C26: every build or layout transition submitted outside the frame loop is
\* held by a one-shot command buffer that stays allocated, and its operation
\* stays blocked in the idle wait, until the queue has executed it.
C26_OneShotBlocksUntilIdle ==
    \A i \in 1..Len(queue) :
        queue[i].kind # "frame"
          => /\ build_command_buffer.allocated
             /\ pc \in OneShotWaits

\* C26 as amended: every acceleration-structure build and the layout transition
\* of the rt-output image is allocated, recorded and submitted in one-shot
\* form; while it is pending its command buffer stays allocated and its
\* operation stays blocked in queue_wait_idle; the command buffer is freed and
\* the operation returns only with the queue idle.  (The depth-image transition
\* of create_image_views is submitted with the setup fence instead.)
C26_BuildsBlockUntilIdle ==
    [][/\ \A i \in 1..Len(queue') :
            queue'[i].kind \notin {"frame", "depth_layout"}
              => /\ build_command_buffer'.allocated
                 /\ pc' \in OneShotWaits
       /\ (~build_command_buffer.allocated /\ build_command_buffer'.allocated)
             => /\ build_command_buffer'.commands # <<>>
                /\ queue' = Append(queue, Job(queue'[Len(queue')].kind, "none"))
       /\ (pc \in OneShotWaits /\ pc' # pc)
             => /\ queue = <<>>
                /\ ~build_command_buffer'.allocated]_vars

\* the one-shot transition of a recreated rt-output image is pending behind the
\* depth-image transition, with create_rt_image blocked in the idle wait
C26_Witness ==
    /\ pc = "create_rt_image_wait"
    /\ ret # "none"
    /\ build_command_buffer = OneShot(RtImageSetupCommands)
    /\ Len(queue) = 2
    /\ queue[1].kind = "depth_layout"
    /\ queue[2].kind = "rt_layout"

\* the bytes a region covers, relative to the start of the table
RegionBytes(region) == region.offset..(region.offset + region.size - 1)

\* the groups of the given kind, by position in the pipeline's creation order
GroupsOf(s, kind) == {i \in 1..Len(ShaderGroups(s)) : ShaderGroups(s)[i] = kind}

\* the region spans the slots of exactly the groups of its kind, one stride each
SpansGroups(region, groups, aligned) ==
    /\ region.stride = aligned
    /\ region.size = Cardinality(groups) * aligned
    /\ \A i \in 1..Len(sbt.slots) :
          (i \in groups) <=> (sbt.slots[i] \in RegionBytes(region))
    /\ \A i \in groups : sbt.slots[i] + aligned - 1 \in RegionBytes(region)

\* C27: in every shader binding table built, the raygen, hit and miss regions
\* are pairwise disjoint and lie inside the table of group_count * aligned
\* bytes; the raygen region is slot 0 with size and stride aligned, the hit
\* region spans exactly the slots of the hit groups, which are contiguous, the
\* miss region is the one slot of the miss group, and the callable region has
\* size 0.
C27_SbtRegionsMatchGroups ==
    sbt.built =>
        LET aligned == RoundedUp(sbt.handle_size, sbt.base_alignment)
            groups == ShaderGroups(snapshot)
        IN /\ sbt.table_size = Len(groups) * aligned
           /\ \A r \in {"raygen", "hit", "miss"} :
                 /\ RegionBytes(sbt[r]) # {}
                 /\ RegionBytes(sbt[r]) \subseteq 0..(sbt.table_size - 1)
           /\ \A r1, r2 \in {"raygen", "hit", "miss"} :
                 r1 # r2 => RegionBytes(sbt[r1]) \cap RegionBytes(sbt[r2]) = {}
           /\ groups[1] = "raygen"
           /\ sbt.raygen = [offset |-> 0, stride |-> aligned, size |-> aligned]
           /\ SpansGroups(sbt.raygen, {1}, aligned)
           /\ SpansGroups(sbt.hit, GroupsOf(snapshot, "hit"), aligned)
           /\ \A i, j \in GroupsOf(snapshot, "hit") : i..j \subseteq GroupsOf(snapshot, "hit")
           /\ Cardinality(GroupsOf(snapshot, "miss")) = 1
           /\ SpansGroups(sbt.miss, GroupsOf(snapshot, "miss"), aligned)
           /\ sbt.callable.size = 0

\* a table of four groups with two hit groups was built with padded slots
C27_Witness ==
    /\ sbt.built
    /\ Len(ShaderGroups(snapshot)) = 4
    /\ sbt.handle_size < sbt.base_alignment
    /\ sbt.hit.size = 2 * sbt.base_alignment
    /\ sbt.callable.size = 0
    /\ pc = "idle"

\* C28: for every group index i, bytes [i * aligned, i * aligned + handle_size)
\* of the table of group_count * aligned bytes equal handle i of the tightly
\* packed driver output, and every other byte of the table is zero.
C28_TableHoldsHandlesAndZeroPadding ==
    sbt.built =>
        LET aligned == RoundedUp(sbt.handle_size, sbt.base_alignment)
            group_count == Len(ShaderGroups(snapshot))
        IN /\ Len(sbt.table_data) = group_count * aligned
           /\ Len(sbt.incoming_table_data) = group_count * sbt.handle_size
           /\ \A k \in 0..(group_count * aligned - 1) :
                 LET i == k \div aligned
                     b == k % aligned
                 IN sbt.table_data[k + 1] =
                        IF b < sbt.handle_size
                        THEN sbt.incoming_table_data[i * sbt.handle_size + b + 1]
                        ELSE 0

\* a table whose slots are wider than the handles was filled
C28_Witness ==
    /\ sbt.built
    /\ sbt.handle_size = 32
    /\ sbt.base_alignment = 64
    /\ Len(sbt.table_data) = 256
    /\ sbt.table_data[65] = sbt.incoming_table_data[33]
    /\ sbt.table_data[65] # 0
    /\ sbt.table_data[33] = 0

\* bit i of the required-bits mask
TypeBit(type_bits, i) == (type_bits \div (2 ^ i)) % 2 = 1

\* memory type i exists, is allowed by the mask and has every requested flag
Satisfies(lookup, i) ==
    /\ i < Len(lookup.memory_types)
    /\ TypeBit(lookup.type_bits, i)
    /\ lookup.properties \subseteq lookup.memory_types[i + 1]

\* C29: the index get_memory_type_index returns satisfies the request, for
\* every mask, every set of requested flags and every list of memory types:
\* its bit is set in the mask and the type at that index has all the flags.
C29_LookupSatisfiesRequest ==
    memory_lookup.state = "returned" => Satisfies(memory_lookup, memory_lookup.result)

\* the resolution-dependent fields a step of init stores
StepKinds(p) ==
    CASE p = "create_swapchain" -> {"swapchain"}
      [] p = "create_image_views" -> ImageViewKinds
      [] p = "create_framebuffers" -> {"render_pass", "framebuffers"}
      [] p = "create_rt_image" -> {"rt_image", "rt_image_memory", "rt_image_view"}
      [] OTHER -> {}

\* the resolution-dependent fields initialisation of snapshot s stores
ResolutionKinds(s) == UNION {StepKinds(init(s)[i]) : i \in 1..Len(init(s))}

\* control is inside init (or the setup code of main), before the event loop
InInit ==
    /\ ret = "none"
    /\ pc \in (Range(init(snapshot)) \ {"idle"}) \cup OneShotWaits

\* every resolution-dependent field holds a handle
Ready == \A k \in ResolutionKinds(snapshot) : h[k] # 0

\* C30: every resolution-dependent field is stored for the first time inside
\* init, which runs once; a field that holds a handle changes only inside the
\* resize path and never becomes empty again; and whenever control is outside
\* init (an event handler, a frame step, the resize path, teardown) every
\* resolution-dependent field holds a handle.
C30_InitOnceThenResizeOnly ==
    [][/\ \A k \in SwapchainKinds :
            /\ (h[k] = 0 /\ h'[k] # 0) => InInit
            /\ (h[k] # 0 /\ h'[k] # h[k]) => (ret # "none" /\ h'[k] # 0)
       /\ (InInit' /\ ~InInit) => FALSE
       /\ ~InInit' => Ready']_vars

\* a frame has been submitted after a resize replaced the resources init stored
C30_Witness ==
    /\ snapshot = "app"
    /\ Ready
    /\ resizes > 0
    /\ h.rt_image = 2
    /\ h.swapchain = 2
    /\ FramePending
====
